---- MODULE Spec2Model ----
(***************************************************************************)
(* State-machine model of AgentCorPy's core: the Memory ledger             *)
(* (agentcorp/memory.py), the Task tree and TaskManager with its           *)
(* sequential executor (agentcorp/tasks.py) and Agent.chat                 *)
(* (agentcorp/agent.py).                                                   *)
(*                                                                         *)
(* Python's None and absent attributes are modelled as the empty tuple,    *)
(* a present value x as <<x>>.  A Message object of the ledger is          *)
(* identified by its position in Memory.messages (list.remove and `in`    *)
(* compare Message objects by identity), a Message object that is not in  *)
(* the ledger by position 0.                                               *)
(***************************************************************************)
EXTENDS Integers, Sequences, FiniteSets, TLC

VARIABLES
    messages,             \* Memory.messages: sequence of Message records
    total_input_tokens,   \* Memory.total_input_tokens
    total_output_tokens,  \* Memory.total_output_tokens
    max_messages,         \* Memory.max_messages
    max_tokens,           \* Memory.max_tokens
    input_cost_per_million,   \* Memory.input_cost_per_million, in USD cents
    output_cost_per_million,  \* Memory.output_cost_per_million, in USD cents
    tokenizer_ok,         \* whether tiktoken.encoding_for_model(model) succeeds
    tools,                \* Agent.tools: the names of the bound tool subset
    supports_tools,       \* provider.supports_tools()
    registry,             \* ToolRegistry._instance.tools of tool_registry.py and of tools.py
    workingdir,           \* the "workingdir" setting of the ToolExecutionContext
    fs,                   \* the filesystem: its directories and files
    sys_sets,             \* number of set_system_prompt calls so far (saturating)
    task,                 \* the Task objects created so far; a Task is its index
    tasks,                \* TaskManager.tasks: the ids that are keys of the mapping
    pc,                   \* position of the running operation ("idle": none is running)
    run,                  \* locals of the running operation, its caller's frame in `outer`
    call                  \* the last operation performed: name, arguments, outcome

\* the filesystem the tools work on
fsvars == <<workingdir, fs>>

\* the prices Memory.__init__ takes from the pricing table
costvars == <<input_cost_per_million, output_cost_per_million>>

\* what is fixed once the Agent is constructed, and the filesystem, which
\* only the filesystem tools change
envvars == <<tokenizer_ok, tools, supports_tools, registry, fsvars, costvars>>

memvars == <<messages, total_input_tokens, total_output_tokens, max_messages,
             max_tokens, envvars, sys_sets>>

taskvars == <<task, tasks, pc, run>>

vars == <<messages, total_input_tokens, total_output_tokens, max_messages,
          max_tokens, input_cost_per_million, output_cost_per_million, tokenizer_ok, tools, supports_tools, registry,
          workingdir, fs, sys_sets, task, tasks, pc, run, call>>

None == <<>>
Some(x) == <<x>>

Min(a, b) == IF a < b THEN a ELSE b

(***************************************************************************)
(* The tool registries.  agentcorp/tool_registry.py holds the ToolRegistry *)
(* whose global instance the Agent and the built-in tools use.             *)
(* agentcorp/tools.py holds a second ToolRegistry class with a global      *)
(* instance of its own; the tools package of the same name takes its place *)
(* for `import agentcorp.tools`, so that class is reached only when the    *)
(* file is loaded by its path.  A registry's `tools` dict is a function    *)
(* from names to Tool records; `registry` holds the dict of the one        *)
(* instance of each class.                                                 *)
(***************************************************************************)
NoTools == <<>>

\* names that get registered, and a name that never is
ToolNames == {"echo", "write_file"}
UnregisteredNames == {"web_fetch"}

\* Tool(name, description, function, parameters): two Tool objects of one
\* name differ in their function
ToolObjects == { [name |-> n, function |-> f] : n \in ToolNames, f \in {"f1", "f2"} }

\* the tool_names argument: lists of up to two names, repeated, registered or not
ToolNameLists ==
    LET N == ToolNames \cup UnregisteredNames
    IN  {<<>>} \cup { <<a>> : a \in N } \cup { <<a, b>> : a \in N, b \in N }

\* ToolRegistry.__new__ and the registrations made while agentcorp is
\* imported (tools/filesystem/write_file.py line 75)
InitialRegistry ==
    [tool_registry |-> ("write_file" :> [name |-> "write_file", function |-> "f1"]),
     tools_py      |-> NoTools]

\* register_tool: self.tools[tool.name] = tool
RegisterTool(tools_dict, tool) == (tool.name :> tool) @@ tools_dict

\* the loop of get_tools_by_names: the entries of self_tools whose name is
\* in tool_names are stored in target
CopyNamed(target, self_tools, tool_names) ==
    [n \in { tool_names[k] : k \in DOMAIN tool_names } \cap DOMAIN self_tools
        |-> self_tools[n]] @@ target

\* tool_registry.py, get_tools_by_names: a new dict is filled and returned;
\* self.tools is read only
GetToolsByNames(self_tools, tool_names) ==
    [tools |-> self_tools, ret |-> CopyNamed(NoTools, self_tools, tool_names)]

\* tools.py, get_tools_by_names: ToolRegistry() is the one instance of the
\* class, which is self, so `subset_registry.tools = {}` empties self.tools
\* before the loop reads it; the instance itself is returned
GetToolsByNames_ToolsPy(self_tools, tool_names) ==
    LET emptied == NoTools
        filled  == CopyNamed(emptied, emptied, tool_names)
    IN  [tools |-> filled, ret |-> filled]

(***************************************************************************)
(* models.py: the pricing table.  Costs are in USD per million tokens in   *)
(* the code and in USD cents per million tokens here, so that 0.25 is 25.  *)
(***************************************************************************)
models ==
    ("openai" :>
        ("gpt-3.5-turbo" :>
            [input_cost |-> 150, output_cost |-> 200, context_size |-> 16385] @@
         "gpt-4" :>
            [input_cost |-> 3000, output_cost |-> 6000, context_size |-> 8192] @@
         "gpt-4-turbo" :>
            [input_cost |-> 1000, output_cost |-> 3000, context_size |-> 128000])) @@
    ("anthropic" :>
        ("claude-3-haiku" :>
            [input_cost |-> 25, output_cost |-> 125, context_size |-> 200000] @@
         "claude-3-sonnet" :>
            [input_cost |-> 300, output_cost |-> 1500, context_size |-> 200000] @@
         "claude-3-opus" :>
            [input_cost |-> 1500, output_cost |-> 7500, context_size |-> 200000])) @@
    ("xai" :>
        ("grok-4-fast-reasoning" :>
            [input_cost |-> 20, output_cost |-> 50, context_size |-> 2000000] @@
         "grok-code-fast-1" :>
            [input_cost |-> 20, output_cost |-> 150, context_size |-> 256000]))

\* a lookup that falls back to openai/gpt-3.5-turbo for an unknown model
get_model_info_Fallback(provider, model) ==
    IF provider \in DOMAIN models /\ model \in DOMAIN models[provider]
    THEN [raised |-> FALSE, error |-> "", info |-> Some(models[provider][model])]
    ELSE [raised |-> FALSE, error |-> "",
          info |-> Some(models["openai"]["gpt-3.5-turbo"])]

\* get_model_info: the entry of the table, or ValueError for a provider or
\* a model of the provider that the table does not have
get_model_info(provider, model) ==
    IF provider \notin DOMAIN models
    THEN [raised |-> TRUE, error |-> "ValueError: Provider not found", info |-> None]
    ELSE IF model \notin DOMAIN models[provider]
    THEN [raised |-> TRUE, error |-> "ValueError: Model not found", info |-> None]
    ELSE [raised |-> FALSE, error |-> "", info |-> Some(models[provider][model])]

(***************************************************************************)
(* Bounds of the model and program constants                               *)
(***************************************************************************)
\* Memory.max_messages of the ledgers explored by SpecMem
MaxMessages == 2
\* Memory.max_tokens (the model's context_size) of the ledgers explored by SpecMem
MaxTokens == 4
\* add_response_message is explored while total_input_tokens stays within this cap
TokenCap == 6
\* add_response_message is explored while total_output_tokens stays within this cap
OutCap == 2
\* set_system_prompt calls are counted up to this number
SysSetsCap == 2
\* tokens added to the estimate per requested tool call
ToolCallTokens == 10
\* Task objects created at most
MaxTasks == 3
\* agent.chat is explored while the ledger holds fewer than 2 * ChatCap messages
ChatCap == 3
\* Memory.max_messages of an Agent's ledger (the constructor's default)
DefaultMaxMessages == 100
\* context_size of openai/gpt-3.5-turbo, the max_tokens of the Agent's ledger
ContextSize == 16385
\* words of the fixed text of the prompt template of Task.execute
PromptWords == 32

\* descriptions of subtasks, in the order the lists below use them
Descriptions == <<"a", "b", "c", "d">>
RootDescriptions == {"p"}
\* texts a provider replies with
Replies == {"r1"}
Errors == {"e1"}
Statuses == {"pending", "in_progress", "completed", "failed"}
\* result arguments: None or a text
Results == {None} \cup { Some(r) : r \in Replies }
\* the (status, result, error) arguments update_task_status is called with
StatusUpdates ==
    { [status |-> st, result |-> None, error |-> None] : st \in Statuses } \cup
    { [status |-> "completed", result |-> r, error |-> None] : r \in Results } \cup
    { [status |-> "failed", result |-> None, error |-> Some(e)] : e \in Errors }
\* the subtask description lists handed to add_complex_task
SubtaskLists == { SubSeq(Descriptions, 1, n) : n \in 0..(MaxTasks - 1) }
\* ProviderResponse values of the provider rounds of agent.chat
ExecResponses ==
    { [message |-> [text |-> r, words |-> 1, bpe |-> 1], function_calls |-> <<>>,
       input_tokens |-> 5, output_tokens |-> 1] : r \in Replies }

\* message contents: the text, its number of whitespace-separated words
\* (len(content.split())) and the length of its tiktoken encoding
MemContents ==
    { [text |-> "Hello world", words |-> 2, bpe |-> 2],
      [text |-> "a b c",       words |-> 3, bpe |-> 4] }
SysPrompts ==
    { [text |-> "S1", words |-> 1, bpe |-> 1],
      [text |-> "S2", words |-> 1, bpe |-> 1] }
\* the (role, content) pairs handed to add_message
MemInputs ==
    { [role |-> "user", content |-> c] : c \in MemContents } \cup
    { [role |-> "system", content |-> c] : c \in SysPrompts }
\* ProviderResponse values handed to add_response_message
MemResponses ==
    { [message |-> [text |-> "Hi there", words |-> 2, bpe |-> 2],
       function_calls |-> <<>>, input_tokens |-> r, output_tokens |-> o] :
      r \in {1, 3}, o \in {1} }

(***************************************************************************)
(* tools/filesystem/utils.py: paths.  A path string is a sequence of       *)
(* characters, a pathlib.Path a sequence of components, each a sequence   *)
(* of characters.                                                          *)
(***************************************************************************)
\* the components of a path string: split at "/", without empty ones and "."
RECURSIVE SplitPath(_, _)
SplitPath(s, cur) ==
    IF Len(s) = 0
    THEN IF cur \in {<<>>, <<".">>} THEN <<>> ELSE <<cur>>
    ELSE IF Head(s) = "/"
         THEN (IF cur \in {<<>>, <<".">>} THEN <<>> ELSE <<cur>>)
                 \o SplitPath(Tail(s), <<>>)
         ELSE SplitPath(Tail(s), Append(cur, Head(s)))

\* Path.is_absolute
IsAbsolute(s) == Len(s) > 0 /\ Head(s) = "/"

\* Path.resolve on components: ".." drops the component before it, and
\* stays at the root
RECURSIVE Normalize(_, _)
Normalize(done, rest) ==
    IF Len(rest) = 0 THEN done
    ELSE IF Head(rest) = <<".", ".">>
         THEN Normalize(IF Len(done) = 0 THEN done
                        ELSE SubSeq(done, 1, Len(done) - 1), Tail(rest))
         ELSE Normalize(Append(done, Head(rest)), Tail(rest))

\* the directory relative paths are resolved against when no working
\* directory is set: the current directory of the process
Cwd == << <<"w">> >>

\* Path(file_path).resolve() and (base / file_path).resolve()
ResolveFrom(base, s) ==
    IF IsAbsolute(s) THEN Normalize(<<>>, SplitPath(s, <<>>))
    ELSE Normalize(base, SplitPath(s, <<>>))
Resolve(s) == ResolveFrom(Cwd, s)

\* str(path)
RECURSIVE PathStr(_)
PathStr(path) ==
    IF Len(path) = 0 THEN <<"/">>
    ELSE IF Len(path) = 1 THEN <<"/">> \o path[1]
    ELSE PathStr(SubSeq(path, 1, Len(path) - 1)) \o <<"/">> \o path[Len(path)]

\* str.startswith
StartsWith(s, prefix) ==
    Len(prefix) <= Len(s) /\ SubSeq(s, 1, Len(prefix)) = prefix

\* line 44: str(file_full_path).startswith(str(working_dir_path))
IsWithin(path, root) == StartsWith(PathStr(path), PathStr(root))

\* _validate_path: (is_valid, error_message, resolved_path)
ValidatePath(wd, file_path) ==
    IF Len(wd) = 0
    THEN [is_valid |-> TRUE, error |-> "", path |-> Resolve(file_path)]
    ELSE IF ~IsWithin(ResolveFrom(Resolve(wd), file_path), Resolve(wd))
         THEN [is_valid |-> FALSE, error |-> "Access denied", path |-> <<>>]
         ELSE [is_valid |-> TRUE, error |-> "",
               path |-> ResolveFrom(Resolve(wd), file_path)]

\* the filesystem before any tool ran: the directories /, /w, /w/r and
\* /w/r2, a file in each of the last two
InitialFs ==
    [dirs |-> { <<>>, << <<"w">> >>, << <<"w">>, <<"r">> >>,
                << <<"w">>, <<"r", "2">> >> },
     files |-> { [path |-> << <<"w">>, <<"r">>, <<"f">> >>, content |-> "old"],
                 [path |-> << <<"w">>, <<"r", "2">>, <<"f">> >>, content |-> "old"] }]

(***************************************************************************)
(* providers/base.py: Message                                              *)
(***************************************************************************)
Message(role, content, tool_calls, tool_call_id) ==
    [role |-> role, content |-> content, tool_calls |-> tool_calls,
     tool_call_id |-> tool_call_id, input_tokens |-> 0, output_tokens |-> 0,
     task_id |-> None,
     input_tokens_estimate |-> None,   \* attribute set by Memory.add_message
     input_tokens_total |-> None]      \* attribute set by add_response_message

(***************************************************************************)
(* memory.py: Memory                                                       *)
(***************************************************************************)
\* int(len(content.split()) * 1.3)
FallbackEstimate(content) == (content.words * 13) \div 10

\* lines 25-29: the tokenizer's count plus 10 per tool call, or the fallback
EstimateTokens(content, tool_calls) ==
    IF tokenizer_ok
    THEN content.bpe + (IF Len(tool_calls) > 0 THEN Len(tool_calls) * ToolCallTokens ELSE 0)
    ELSE FallbackEstimate(content)

\* the pruning condition without its token-budget disjunct
MustPrune_CountOnly(msgs, total, est) ==
    Len(msgs) > max_messages

\* the condition of the pruning loop, line 35
MustPrune(msgs, total, est) ==
    Len(msgs) > max_messages \/ total + est > max_tokens

\* an eviction that takes the word count of the message off the total
EvictedTokens_Words(removed) == removed.content.words

\* the decrement of an eviction taken from the estimate of the message
EvictedTokens_Estimate(removed) ==
    IF removed.input_tokens_estimate = None THEN 0
    ELSE removed.input_tokens_estimate[1]

\* line 37: getattr(removed, 'input_tokens', 0), the decrement of an eviction
EvictedTokens(removed) == removed.input_tokens

\* lines 35-37: pop(0) while the condition holds; pop from an empty list
\* raises IndexError, which leaves the loop with the state reached so far
RECURSIVE Prune(_, _, _)
Prune(msgs, total, est) ==
    IF MustPrune(msgs, total, est)
    THEN IF Len(msgs) = 0
         THEN [messages |-> msgs, total |-> total, raised |-> TRUE]
         ELSE Prune(Tail(msgs), total - EvictedTokens(Head(msgs)), est)
    ELSE [messages |-> msgs, total |-> total, raised |-> FALSE]

\* Memory.add_message on the ledger (msgs, total): the ledger afterwards, the
\* message object created, its position `at` in the ledger (0 when the loop
\* popped it too), the number of messages popped and whether IndexError was
\* raised
AddMessage(msgs, total, role, content, tool_calls, tool_call_id, task_id) ==
    LET est == EstimateTokens(content, tool_calls)
        msg == [Message(role, content, tool_calls, tool_call_id)
                  EXCEPT !.task_id = task_id, !.input_tokens_estimate = Some(est)]
        p   == Prune(Append(msgs, msg), total, est)
    IN  [messages |-> p.messages, total |-> p.total, raised |-> p.raised,
         msg |-> msg, at |-> Len(p.messages), est |-> est,
         evicted |-> Len(msgs) + 1 - Len(p.messages)]

\* the reconciliation storing the reported total as the message's own tokens
Reconcile_NotMarginal(msg, response, total) ==
    [msg EXCEPT !.input_tokens_total = Some(response.input_tokens),
                !.input_tokens = response.input_tokens,
                !.output_tokens = response.output_tokens]

\* lines 45-48: the fields add_response_message stores on the message
Reconcile(msg, response, total) ==
    [msg EXCEPT !.input_tokens_total = Some(response.input_tokens),
                !.input_tokens = response.input_tokens - total,
                !.output_tokens = response.output_tokens]

\* lines 43-50 on the outcome a of add_message
Reconciled(a, total_out, response) ==
    IF a.raised
    THEN [messages |-> a.messages, total |-> a.total, total_out |-> total_out,
          raised |-> TRUE, msg |-> a.msg, at |-> a.at, est |-> a.est,
          evicted |-> a.evicted]
    ELSE [messages |-> [k \in 1..Len(a.messages) |->
                          IF k = a.at THEN Reconcile(a.messages[k], response, a.total)
                          ELSE a.messages[k]],
          total |-> a.total + response.input_tokens,
          total_out |-> total_out + response.output_tokens,
          raised |-> FALSE, msg |-> Reconcile(a.msg, response, a.total), at |-> a.at,
          est |-> a.est, evicted |-> a.evicted]

\* Memory.add_response_message; an IndexError of add_message propagates
\* before any reconciliation (the outcome of add_message is taken once)
AddResponseMessage(msgs, total, total_out, role, response, tool_call_id, task_id) ==
    CHOOSE r \in { Reconciled(a, total_out, response) :
                     a \in {AddMessage(msgs, total, role, response.message,
                                       response.function_calls, tool_call_id, task_id)} } :
        TRUE

\* a reader that leaves out the system messages of other tasks
GetMessagesForTask_TaskOnly(msgs, task_id) ==
    SelectSeq(msgs, LAMBDA m : m.task_id = task_id)

\* Memory.get_messages_for_task
GetMessagesForTask(msgs, task_id) ==
    SelectSeq(msgs, LAMBDA m : m.task_id = task_id \/ m.role = "system")

\* Memory.get_messages: a copy of the list
GetMessages(msgs) == msgs

\* a cost that leaves out the output tokens
GetTotalCost_InputOnly(total, total_out, input_cost, output_cost) ==
    total * input_cost

\* Memory.get_total_cost: (total_input_tokens / 1_000_000) *
\* input_cost_per_million + (total_output_tokens / 1_000_000) *
\* output_cost_per_million.  With the costs in USD cents the value is kept
\* as the exact number of 1/100,000,000 USD, so that 2.5 USD is 250,000,000.
GetTotalCost(total, total_out, input_cost, output_cost) ==
    total * input_cost + total_out * output_cost

\* a removal of the first message with the role and content of the object
RemoveMessage_ByRoleAndContent(msgs, at) ==
    IF at \in 1..Len(msgs)
    THEN LET k == CHOOSE k \in 1..Len(msgs) :
                      /\ msgs[k].role = msgs[at].role
                      /\ msgs[k].content = msgs[at].content
                      /\ \A j \in 1..(k - 1) :
                            msgs[j].role # msgs[at].role \/ msgs[j].content # msgs[at].content
         IN  SubSeq(msgs, 1, k - 1) \o SubSeq(msgs, k + 1, Len(msgs))
    ELSE msgs

\* Memory.remove_message: list.remove of the object, if it is in the list
RemoveMessage(msgs, at) ==
    IF at \in 1..Len(msgs)
    THEN SubSeq(msgs, 1, at - 1) \o SubSeq(msgs, at + 1, Len(msgs))
    ELSE msgs

\* set_system_prompt without the removal of the earlier system messages
SetSystemPrompt_KeepOld(msgs, prompt) ==
    <<Message("system", prompt, <<>>, None)>> \o msgs

\* Memory.set_system_prompt
SetSystemPrompt(msgs, prompt) ==
    LET rest == SelectSeq(msgs, LAMBDA m : m.role # "system")
    IN  <<Message("system", prompt, <<>>, None)>> \o rest

(***************************************************************************)
(* Operations on the ledger                                                *)
(***************************************************************************)
MemAddMessage(role, content, task_id) ==
    LET a == AddMessage(messages, total_input_tokens, role, content, <<>>, None, task_id)
    IN  /\ messages' = a.messages
        /\ total_input_tokens' = a.total
        /\ call' = [op |-> "add_message", raised |-> a.raised, ret |-> a.msg,
                    at |-> a.at, evicted |-> a.evicted,
                    freed |-> total_input_tokens - a.total]
        /\ UNCHANGED <<taskvars, total_output_tokens, max_messages, max_tokens, envvars,
                       sys_sets>>

MemAddResponseMessage(response, task_id) ==
    LET a == AddResponseMessage(messages, total_input_tokens, total_output_tokens,
                                "assistant", response, None, task_id)
    IN  /\ total_input_tokens + response.input_tokens <= TokenCap
        /\ total_output_tokens + response.output_tokens <= OutCap
        /\ messages' = a.messages
        /\ total_input_tokens' = a.total
        /\ total_output_tokens' = a.total_out
        /\ call' = [op |-> "add_response_message", raised |-> a.raised,
                    ret |-> a.msg, at |-> a.at, evicted |-> a.evicted,
                    response |-> response]
        /\ UNCHANGED <<taskvars, max_messages, max_tokens, envvars, sys_sets>>

\* remove_message of a message object of the ledger, or of one that is not in it
MemRemoveMessage(at) ==
    /\ messages' = RemoveMessage(messages, at)
    /\ call' = [op |-> "remove_message", raised |-> FALSE, at |-> at,
                removed |-> IF at \in 1..Len(messages) THEN Some(messages[at]) ELSE None]
    /\ UNCHANGED <<taskvars, total_input_tokens, total_output_tokens, max_messages, max_tokens,
                   envvars, sys_sets>>

MemSetSystemPrompt(prompt) ==
    /\ messages' = SetSystemPrompt(messages, prompt)
    /\ sys_sets' = Min(sys_sets + 1, SysSetsCap)
    /\ call' = [op |-> "set_system_prompt", raised |-> FALSE, prompt |-> prompt]
    /\ UNCHANGED <<taskvars, total_input_tokens, total_output_tokens, max_messages, max_tokens,
                   envvars>>

\* Memory.get_messages
MemGetMessages ==
    /\ call' = [op |-> "get_messages", raised |-> FALSE, ret |-> GetMessages(messages)]
    /\ UNCHANGED <<memvars, taskvars>>

\* Memory.get_messages_for_task
MemGetMessagesForTask(task_id) ==
    /\ call' = [op |-> "get_messages_for_task", raised |-> FALSE, task_id |-> task_id,
                ret |-> GetMessagesForTask(messages, task_id)]
    /\ UNCHANGED <<memvars, taskvars>>

\* Memory.__init__ with a small cap and context size
InitMem ==
    /\ messages = <<>>
    /\ total_input_tokens = 0
    /\ total_output_tokens = 0
    /\ max_messages = MaxMessages
    /\ max_tokens = MaxTokens
    /\ input_cost_per_million = models["openai"]["gpt-3.5-turbo"].input_cost
    /\ output_cost_per_million = models["openai"]["gpt-3.5-turbo"].output_cost
    /\ tokenizer_ok \in BOOLEAN
    /\ tools = {}
    /\ supports_tools = TRUE
    /\ registry = InitialRegistry
    /\ workingdir = <<>>
    /\ fs = InitialFs
    /\ sys_sets = 0
    /\ call = [op |-> "init", raised |-> FALSE]
    /\ task = <<>>
    /\ tasks = {}
    /\ pc = "idle"
    /\ run = None

NextMem ==
    \/ \E in \in MemInputs : MemAddMessage(in.role, in.content, None)
    \/ \E response \in MemResponses : MemAddResponseMessage(response, None)
    \/ \E at \in 0..Len(messages) : MemRemoveMessage(at)
    \/ \E prompt \in SysPrompts : MemSetSystemPrompt(prompt)

SpecMem == InitMem /\ [][NextMem]_vars

\* word counts of the contents handed to add_message by SpecEstimate
MaxWords == 5

\* contents of 0..MaxWords words, which the tokenizer encodes in twice as
\* many tokens
WordContents == { [text |-> "w", words |-> n, bpe |-> 2 * n] : n \in 0..MaxWords }

\* a Memory with the default cap for openai/gpt-3.5-turbo, with or without
\* a tokenizer for the model
InitEstimate ==
    /\ messages = <<>>
    /\ total_input_tokens = 0
    /\ total_output_tokens = 0
    /\ max_messages = DefaultMaxMessages
    /\ max_tokens = ContextSize
    /\ input_cost_per_million = models["openai"]["gpt-3.5-turbo"].input_cost
    /\ output_cost_per_million = models["openai"]["gpt-3.5-turbo"].output_cost
    /\ tokenizer_ok \in BOOLEAN
    /\ tools = {}
    /\ supports_tools = TRUE
    /\ registry = InitialRegistry
    /\ workingdir = <<>>
    /\ fs = InitialFs
    /\ sys_sets = 0
    /\ task = <<>>
    /\ tasks = {}
    /\ pc = "idle"
    /\ run = None
    /\ call = [op |-> "init", raised |-> FALSE]

\* add_message for contents of every word count, while the ledger holds
\* at most MaxMessages messages
NextEstimate ==
    /\ Len(messages) <= MaxMessages
    /\ \E content \in WordContents : MemAddMessage("user", content, None)

SpecEstimate == InitEstimate /\ [][NextEstimate]_vars

\* Memory.get_total_cost
MemGetTotalCost ==
    /\ call' = [op |-> "get_total_cost", raised |-> FALSE,
                ret |-> GetTotalCost(total_input_tokens, total_output_tokens,
                                    input_cost_per_million, output_cost_per_million)]
    /\ UNCHANGED <<memvars, taskvars>>

\* running totals of a Memory whose messages were all taken out again with
\* remove_message, which keeps the totals
InputTotals == {0, 3, 1000000}
OutputTotals == {0, 1, 500000}

\* a Memory for a provider and model of the pricing table, with an empty
\* ledger and running totals left by earlier exchanges; the totals of a
\* million tokens are explored for the models of at most 2 USD per million,
\* whose cost stays within 32-bit integers
InitCost ==
    /\ messages = <<>>
    /\ max_messages = DefaultMaxMessages
    /\ \E provider \in DOMAIN models : \E model \in DOMAIN models[provider] :
          /\ max_tokens = models[provider][model].context_size
          /\ input_cost_per_million = models[provider][model].input_cost
          /\ output_cost_per_million = models[provider][model].output_cost
    /\ total_input_tokens \in InputTotals
    /\ total_output_tokens \in OutputTotals
    /\ (input_cost_per_million > 200 \/ output_cost_per_million > 200) =>
          (total_input_tokens <= TokenCap /\ total_output_tokens <= OutCap)
    /\ tokenizer_ok = TRUE
    /\ tools = {}
    /\ supports_tools = TRUE
    /\ registry = InitialRegistry
    /\ workingdir = <<>>
    /\ fs = InitialFs
    /\ sys_sets = 0
    /\ task = <<>>
    /\ tasks = {}
    /\ pc = "idle"
    /\ run = None
    /\ call = [op |-> "init", raised |-> FALSE]

\* get_total_cost between add_message and add_response_message calls
NextCost ==
    \/ MemGetTotalCost
    \/ /\ Len(messages) < MaxMessages
       /\ \E content \in MemContents : MemAddMessage("user", content, None)
    \/ /\ Len(messages) < MaxMessages
       /\ \E response \in MemResponses : MemAddResponseMessage(response, None)

SpecCost == InitCost /\ [][NextCost]_vars

\* add_message on the ledger with the small cap and context size, for
\* contents whose estimate is below, at and above max_tokens
NextOverflow ==
    \/ \E content \in WordContents : MemAddMessage("user", content, None)
    \/ \E at \in 0..Len(messages) : MemRemoveMessage(at)

SpecOverflow == InitMem /\ [][NextOverflow]_vars

\* the task_id arguments of the ledger's operations
TaskTags == {None, Some("t1")}

\* the ledger with messages tagged with a task, its readers and
\* remove_message
NextMemTask ==
    \/ \E in \in MemInputs, task_id \in TaskTags :
          MemAddMessage(in.role, in.content, task_id)
    \/ \E response \in MemResponses : MemAddResponseMessage(response, Some("t1"))
    \/ \E at \in 0..Len(messages) : MemRemoveMessage(at)
    \/ MemGetMessages
    \/ \E task_id \in TaskTags \cup {Some("t2")} : MemGetMessagesForTask(task_id)

SpecMemTask == InitMem /\ [][NextMemTask]_vars

(***************************************************************************)
(* tasks.py: Task                                                          *)
(***************************************************************************)
\* Task.__init__
NewTask(description, parent_task) ==
    [description |-> description, status |-> "pending", result |-> None,
     error |-> None, parent_task |-> parent_task, subtasks |-> <<>>]

\* add_subtask putting the new subtask in front of the list
AddSubtask_Prepend(h, t, description) ==
    LET h1 == Append(h, NewTask(description, Some(t)))
    IN  [h1 EXCEPT ![t].subtasks = <<Len(h1)>> \o @]

\* add_subtask that does not hand the parent to the new Task
AddSubtask_NoParent(h, t, description) ==
    LET h1 == Append(h, NewTask(description, None))
    IN  [h1 EXCEPT ![t].subtasks = Append(@, Len(h1))]

\* Task.add_subtask on the heap h: the new Task object is Len(h) + 1
AddSubtask(h, t, description) ==
    LET h1 == Append(h, NewTask(description, Some(t)))
    IN  [h1 EXCEPT ![t].subtasks = Append(@, Len(h1))]

\* Task.start
Start(h, t) == [h EXCEPT ![t].status = "in_progress"]

\* Task.fail
Fail(h, t, error) == [h EXCEPT ![t].status = "failed", ![t].error = error]

\* the completion check with any() in the place of all()
AllSubtasksCompleted_Any(h, t) ==
    \E k \in 1..Len(h[t].subtasks) : h[h[t].subtasks[k]].status = "completed"

\* the condition of Task._check_completion, line 47
AllSubtasksCompleted(h, t) ==
    \A k \in 1..Len(h[t].subtasks) : h[h[t].subtasks[k]].status = "completed"

\* complete() that does not store the result
Complete_DropResult(h, t, result) == [h EXCEPT ![t].status = "completed"]

\* Task.complete and Task._check_completion
RECURSIVE Complete(_, _, _)
RECURSIVE CheckCompletion(_, _)
Complete(h, t, result) ==
    LET h1 == [h EXCEPT ![t].status = "completed", ![t].result = result]
    IN  IF h[t].parent_task # None
        THEN CheckCompletion(h1, h[t].parent_task[1])
        ELSE h1
CheckCompletion(h, t) ==
    IF AllSubtasksCompleted(h, t) THEN Complete(h, t, None) ELSE h

\* Task.is_complex
IsComplex(h, t) == Len(h[t].subtasks) > 0

\* the previous_results entry of a subtask, lines 149 and 161
ResultEntry(h, s) == [description |-> h[s].description, result |-> h[s].result]

\* the context without the filter on the status
PreviousResults_Unfiltered(h, t, i) ==
    [k \in 1..(i - 1) |-> ResultEntry(h, h[t].subtasks[k])]

\* lines 148-151: the completed subtasks among the first i-1 (i counts from 1)
RECURSIVE PreviousResults(_, _, _)
PreviousResults(h, t, i) ==
    IF i <= 1 THEN <<>>
    ELSE LET s == h[t].subtasks[i - 1]
             before == PreviousResults(h, t, i - 1)
         IN  IF h[s].status = "completed" THEN Append(before, ResultEntry(h, s))
             ELSE before

\* lines 160-163: every completed subtask
AllResults(h, t) == PreviousResults(h, t, Len(h[t].subtasks) + 1)

\* the loop's test against the wrong member of TaskStatus
IsPending_WrongStatus(h, s) == h[s].status = "in_progress"

\* the loop's test passing over completed subtasks only
IsPending_NotCompleted(h, s) == h[s].status # "completed"

\* the condition under which the loop executes a subtask, line 144
IsPending(h, s) == h[s].status = "pending"

\* Task.execute, lines 59-69: the prompt; its text is kept as the three parts
\* the template embeds
Prompt(h, t, overall_task, previous_results) ==
    [text |-> [overall |-> h[overall_task].description,
               previous |-> previous_results,
               current |-> h[t].description],
     words |-> PromptWords + 2 + (IF Len(previous_results) = 0 THEN 1
                                  ELSE 3 * Len(previous_results)),
     bpe |-> PromptWords + 2 + (IF Len(previous_results) = 0 THEN 1
                                ELSE 3 * Len(previous_results))]

(***************************************************************************)
(* agent.py: Agent.chat without bound tools (lines 41-43 and 74-81)        *)
(***************************************************************************)
\* the ledger after chat(user_message, add_to_memory=True) whose provider
\* round returned `response`; an IndexError of the ledger propagates
Chat(msgs, total, total_out, user_message, response) ==
    LET u == AddMessage(msgs, total, "user", user_message, <<>>, None, None)
        a == AddResponseMessage(u.messages, u.total, total_out, "assistant",
                                response, None, None)
    IN  IF u.raised
        THEN [messages |-> u.messages, total |-> u.total, total_out |-> total_out,
              raised |-> TRUE]
        ELSE [messages |-> a.messages, total |-> a.total, total_out |-> a.total_out,
              raised |-> a.raised]

(***************************************************************************)
(* tasks.py: TaskManager and direct calls on Task objects                  *)
(***************************************************************************)
Idle == pc = "idle"

\* The model follows one task tree: a root task is added to a TaskManager
\* that holds none yet.
NoRootYet == tasks = {}

\* a mapping that holds the new key only
Register_Replace(keys, id) == {id}

\* self.tasks[task.id] = task, lines 97 and 106
Register(keys, id) == keys \cup {id}

\* TaskManager.add_task on a TaskManager with any number of tasks
ManagerAddTask(description) ==
    /\ Idle
    /\ Len(task) < MaxTasks
    /\ task' = Append(task, NewTask(description, None))
    /\ tasks' = Register(tasks, Len(task) + 1)
    /\ call' = [op |-> "add_task", raised |-> FALSE, ret |-> Len(task) + 1]
    /\ UNCHANGED <<memvars, pc, run>>

\* TaskManager.add_task
AddTask(description) == NoRootYet /\ ManagerAddTask(description)

\* the subtasks added last to first
RECURSIVE AddSubtasks_Reversed(_, _, _)
AddSubtasks_Reversed(h, t, subtasks) ==
    IF Len(subtasks) = 0 THEN h
    ELSE AddSubtask(AddSubtasks_Reversed(h, t, Tail(subtasks)), t, Head(subtasks))

\* add_complex_task lines 103-104: add_subtask for each description in turn
RECURSIVE AddSubtasks(_, _, _)
AddSubtasks(h, t, subtasks) ==
    IF Len(subtasks) = 0 THEN h
    ELSE AddSubtasks(AddSubtask(h, t, Head(subtasks)), t, Tail(subtasks))

\* TaskManager.add_complex_task on a TaskManager with any number of tasks
ManagerAddComplexTask(description, subtasks) ==
    /\ Idle
    /\ Len(task) + 1 + Len(subtasks) <= MaxTasks
    /\ task' = AddSubtasks(Append(task, NewTask(description, None)), Len(task) + 1,
                           subtasks)
    /\ tasks' = Register(tasks, Len(task) + 1)
    /\ call' = [op |-> "add_complex_task", raised |-> FALSE, ret |-> Len(task) + 1,
                 subtasks |-> subtasks]
    /\ UNCHANGED <<memvars, pc, run>>

\* TaskManager.add_complex_task
AddComplexTask(description, subtasks) ==
    NoRootYet /\ ManagerAddComplexTask(description, subtasks)

\* TaskManager.get_task: the Task object under the key, None for no key
GetTask(task_id) == IF task_id \in tasks THEN Some(task_id) ELSE None

\* Task.start called on a task object
TaskStart(t) ==
    /\ Idle
    /\ task' = Start(task, t)
    /\ call' = [op |-> "start", raised |-> FALSE]
    /\ UNCHANGED <<memvars, tasks, pc, run>>

\* Task.complete called on a task object
TaskComplete(t, result) ==
    /\ Idle
    /\ task' = Complete(task, t, result)
    /\ call' = [op |-> "complete", raised |-> FALSE, task |-> t]
    /\ UNCHANGED <<memvars, tasks, pc, run>>

\* Task.fail called on a task object
TaskFail(t, error) ==
    /\ Idle
    /\ task' = Fail(task, t, Some(error))
    /\ call' = [op |-> "fail", raised |-> FALSE]
    /\ UNCHANGED <<memvars, tasks, pc, run>>

\* TaskManager.update_task_status; an id that is no key changes nothing
UpdateTaskStatus(task_id, status, result, error) ==
    /\ Idle
    /\ task' = IF task_id \in tasks
               THEN [task EXCEPT ![task_id].status = status,
                                 ![task_id].result =
                                     IF status = "completed" THEN result ELSE @,
                                 ![task_id].error =
                                     IF status = "failed" THEN error ELSE @]
               ELSE task
    /\ call' = [op |-> "update_task_status", raised |-> FALSE]
    /\ UNCHANGED <<memvars, tasks, pc, run>>

(***************************************************************************)
(* tasks.py: TaskManager.execute_task_sequentially, one action per         *)
(* stretch of code between two calls of agent.chat                         *)
(***************************************************************************)
\* the subtasks of t that are pending
PendingSubtasks(h, t) ==
    { k \in 1..Len(h[t].subtasks) : h[h[t].subtasks[k]].status = "pending" }

\* the record of a finished call; `executed` lists the tasks agent.chat was
\* invoked for, `n0` and `pending0` the subtasks and the pending ones among
\* them when the call began
Returned(r, raised, ret) ==
    [op |-> "execute_task_sequentially", raised |-> raised, ret |-> ret,
     found |-> TRUE, task |-> r.task_id, executed |-> r.executed, n0 |-> r.n0,
     pending0 |-> r.pending0]

\* lines 139-142 and 168-172 for a task that was found: a flat task is
\* started and handed to Task.execute with an empty context; `outer` is the
\* frame of the caller (None for a call from outside the Agent)
ExecStart(task_id, outer) ==
    LET r == [task_id |-> task_id, i |-> 1, executed |-> <<>>,
              n0 |-> Len(task[task_id].subtasks),
              pending0 |-> PendingSubtasks(task, task_id),
              kind |-> "none", target |-> task_id,
              previous_results |-> <<>>, prompt |-> None, outer |-> outer]
    IN  /\ IF IsComplex(task, task_id)
           THEN /\ pc' = "subtasks"
                /\ run' = r
                /\ task' = task
           ELSE /\ pc' = "chat"
                /\ task' = Start(task, task_id)
                /\ run' = [r EXCEPT !.kind = "simple",
                             !.prompt = Prompt(task', task_id, task_id, <<>>)]
        /\ call' = [op |-> "execute_begin", raised |-> FALSE]
        /\ UNCHANGED <<memvars, tasks>>

\* lines 134-137: look the task up; an id that is no key returns None
ExecBegin(task_id) ==
    /\ Idle
    /\ IF task_id \notin tasks
       THEN /\ call' = [op |-> "execute_task_sequentially", raised |-> FALSE,
                        ret |-> None, found |-> FALSE, task |-> task_id,
                        executed |-> <<>>, n0 |-> 0, pending0 |-> {}]
            /\ UNCHANGED <<memvars, taskvars>>
       ELSE /\ Len(messages) + 2 * (Cardinality(PendingSubtasks(task, task_id)) + 1)
                   <= 2 * ChatCap
            /\ ExecStart(task_id, None)

\* lines 143-152: one iteration of the loop over task.subtasks, up to the
\* call of agent.chat for a pending subtask; any other subtask is passed over
ExecSubtask ==
    /\ pc = "subtasks"
    /\ run.i <= Len(task[run.task_id].subtasks)
    /\ LET s == task[run.task_id].subtasks[run.i]
       IN  IF IsPending(task, s)
           THEN /\ task' = Start(task, s)
                /\ pc' = "chat"
                /\ LET previous_results == PreviousResults(task', run.task_id, run.i)
                   IN  run' = [run EXCEPT !.kind = "subtask", !.target = s,
                                 !.previous_results = previous_results,
                                 !.prompt = Prompt(task', s, run.task_id,
                                                   previous_results)]
                /\ call' = [op |-> "execute_subtask", raised |-> FALSE]
           ELSE /\ run' = [run EXCEPT !.i = @ + 1]
                /\ call' = [op |-> "skip_subtask", raised |-> FALSE]
                /\ UNCHANGED <<task, pc>>
    /\ UNCHANGED <<memvars, tasks>>

\* lines 157-164: after the loop the task itself is started and executed
ExecMain ==
    /\ pc = "subtasks"
    /\ run.i > Len(task[run.task_id].subtasks)
    /\ task' = Start(task, run.task_id)
    /\ pc' = "chat"
    /\ LET previous_results == AllResults(task', run.task_id)
       IN  run' = [run EXCEPT !.kind = "main", !.target = run.task_id,
                     !.previous_results = previous_results,
                     !.prompt = Prompt(task', run.task_id, run.task_id,
                                       previous_results)]
    /\ call' = [op |-> "execute_main", raised |-> FALSE]
    /\ UNCHANGED <<memvars, tasks>>

\* lines 153, 165-167 and 173-175: Task.execute has returned `result`; the
\* task is completed with it and the loop goes on or the call returns, to
\* handle_complex_query when that is the caller
ExecCompletes(result) ==
    LET r == [run EXCEPT !.executed = Append(@, run.target)]
    IN  /\ task' = Complete(task, run.target, result)
        /\ IF run.kind = "subtask"
           THEN /\ pc' = "subtasks"
                /\ run' = [r EXCEPT !.i = @ + 1]
                /\ call' = [op |-> "subtask_completed", raised |-> FALSE]
           ELSE /\ IF run.outer = None
                   THEN /\ pc' = "idle"
                        /\ run' = None
                   ELSE /\ pc' = "final"
                        /\ run' = [run.outer[1] EXCEPT !.result = result]
                /\ call' = Returned(r, FALSE, result)
        /\ UNCHANGED tasks

\* an executor that catches the exception and marks the task failed
ExecAborts_MarkFailed ==
    /\ pc' = "idle"
    /\ run' = None
    /\ call' = Returned([run EXCEPT !.executed = Append(@, run.target)], TRUE, None)
    /\ task' = Fail(task, run.target, Some("e1"))
    /\ UNCHANGED tasks

\* agent.chat raised inside Task.execute: nothing catches the exception and
\* the call ends with it
ExecAborts ==
    /\ pc' = "idle"
    /\ run' = None
    /\ call' = Returned([run EXCEPT !.executed = Append(@, run.target)], TRUE, None)
    /\ UNCHANGED <<task, tasks>>

\* Task.execute line 72 with an agent whose chat only returns a text (the
\* MockAgent of tests/test_framework.py)
MockChatReturns(reply) ==
    /\ pc = "chat"
    /\ ExecCompletes(Some(reply))
    /\ UNCHANGED memvars

\* Task.execute line 72 with an agent whose chat raises
MockChatRaises ==
    /\ pc = "chat"
    /\ ExecAborts
    /\ UNCHANGED memvars

\* Task.execute line 72 with an Agent: agent.chat records the exchange in the
\* ledger and returns the provider's message
AgentChatReturns(response) ==
    /\ pc = "chat"
    /\ LET c == Chat(messages, total_input_tokens, total_output_tokens, run.prompt,
                     response)
       IN  /\ messages' = c.messages
           /\ total_input_tokens' = c.total
           /\ total_output_tokens' = c.total_out
           /\ IF c.raised THEN ExecAborts
              ELSE ExecCompletes(Some(response.message.text))
    /\ UNCHANGED <<max_messages, max_tokens, envvars, sys_sets>>

\* the provider round of agent.chat raises: the user message is in the
\* ledger already
AgentChatRaises ==
    /\ pc = "chat"
    /\ LET u == AddMessage(messages, total_input_tokens, "user", run.prompt, <<>>,
                           None, None)
       IN  /\ messages' = u.messages
           /\ total_input_tokens' = u.total
    /\ ExecAborts
    /\ UNCHANGED <<total_output_tokens, max_messages, max_tokens, envvars,
                   sys_sets>>

\* Agent.__init__ without a system prompt: an empty ledger with the default
\* cap, an empty TaskManager
Init ==
    /\ messages = <<>>
    /\ total_input_tokens = 0
    /\ total_output_tokens = 0
    /\ max_messages = DefaultMaxMessages
    /\ max_tokens = ContextSize
    /\ input_cost_per_million = models["openai"]["gpt-3.5-turbo"].input_cost
    /\ output_cost_per_million = models["openai"]["gpt-3.5-turbo"].output_cost
    /\ tokenizer_ok = TRUE
    /\ tools = {}
    /\ supports_tools = TRUE
    /\ registry = InitialRegistry
    /\ workingdir = <<>>
    /\ fs = InitialFs
    /\ sys_sets = 0
    /\ task = <<>>
    /\ tasks = {}
    /\ pc = "idle"
    /\ run = None
    /\ call = [op |-> "init", raised |-> FALSE]

Next ==
    \/ \E d \in RootDescriptions : AddTask(d)
    \/ \E d \in RootDescriptions, subtasks \in SubtaskLists :
          AddComplexTask(d, subtasks)
    \/ \E t \in 1..Len(task) : TaskStart(t)
    \/ \E t \in 1..Len(task), result \in Results : TaskComplete(t, result)
    \/ \E t \in 1..Len(task), e \in Errors : TaskFail(t, e)
    \/ \E id \in 1..Len(task), a \in StatusUpdates :
          UpdateTaskStatus(id, a.status, a.result, a.error)
    \/ \E id \in 1..(Len(task) + 1) : ExecBegin(id)
    \/ ExecSubtask
    \/ ExecMain
    \/ \E reply \in Replies : MockChatReturns(reply)
    \/ MockChatRaises

Spec == Init /\ [][Next]_vars

\* Agent.__init__ with or without a system prompt, lines 16-17 and 37-38
InitAgent ==
    /\ \/ messages = <<>> /\ sys_sets = 0
       \/ \E prompt \in SysPrompts :
             messages = SetSystemPrompt(<<>>, prompt) /\ sys_sets = 1
    /\ total_input_tokens = 0
    /\ total_output_tokens = 0
    /\ max_messages = DefaultMaxMessages
    /\ max_tokens = ContextSize
    /\ input_cost_per_million = models["openai"]["gpt-3.5-turbo"].input_cost
    /\ output_cost_per_million = models["openai"]["gpt-3.5-turbo"].output_cost
    /\ tokenizer_ok \in BOOLEAN
    /\ tools = {}
    /\ supports_tools = TRUE
    /\ registry = InitialRegistry
    /\ workingdir = <<>>
    /\ fs = InitialFs
    /\ task = <<>>
    /\ tasks = {}
    /\ pc = "idle"
    /\ run = None
    /\ call = [op |-> "init", raised |-> FALSE]

\* Agent.add_task, Agent.add_complex_task and Agent.execute_task_sequentially,
\* which hands the Agent itself to the TaskManager
NextAgent ==
    \/ \E d \in RootDescriptions : AddTask(d)
    \/ \E d \in RootDescriptions, subtasks \in SubtaskLists :
          AddComplexTask(d, subtasks)
    \/ \E id \in 1..(Len(task) + 1) : ExecBegin(id)
    \/ ExecSubtask
    \/ ExecMain
    \/ \E response \in ExecResponses : AgentChatReturns(response)
    \/ AgentChatRaises

SpecAgent == InitAgent /\ [][NextAgent]_vars

(***************************************************************************)
(* A TaskManager with any number of root tasks, Task.add_subtask called    *)
(* on task objects and the tool task.add_subtask                           *)
(* (tools/taskmanagement/add_subtask.py)                                   *)
(***************************************************************************)
\* descriptions handed to add_subtask
SubtaskDescriptions == {"s"}

\* Task.add_subtask called on a task object
TaskAddSubtask(t, description) ==
    /\ Idle
    /\ Len(task) < MaxTasks
    /\ task' = AddSubtask(task, t, description)
    /\ call' = [op |-> "add_subtask", raised |-> FALSE, parent |-> t,
                ret |-> Len(task) + 1]
    /\ UNCHANGED <<memvars, tasks, pc, run>>

\* the tool function add_subtask(context, description, parent_task_id) with
\* the Agent's execution context, which has a task_manager and no
\* current_task_id: lines 24-37
ToolAddSubtask(h, description, parent_task_id) ==
    IF parent_task_id = None
    THEN [task |-> h, result |-> "Error: No parent task ID provided", added |-> None]
    ELSE IF GetTask(parent_task_id[1]) = None
    THEN [task |-> h, result |-> "Error: Parent task not found", added |-> None]
    ELSE [task |-> AddSubtask(h, GetTask(parent_task_id[1])[1], description),
          result |-> "Subtask added successfully", added |-> Some(Len(h) + 1)]

\* the tool task.add_subtask executed while no run is in progress
CallAddSubtask(description, parent_task_id) ==
    /\ Idle
    /\ Len(task) < MaxTasks
    /\ \E r \in {ToolAddSubtask(task, description, parent_task_id)} :
          /\ task' = r.task
          /\ call' = [op |-> "task.add_subtask", raised |-> FALSE,
                      parent_task_id |-> parent_task_id, result |-> r.result,
                      added |-> r.added]
    /\ UNCHANGED <<memvars, tasks, pc, run>>

\* TaskManager.get_task
ManagerGetTask(task_id) ==
    /\ Idle
    /\ call' = [op |-> "get_task", raised |-> FALSE, task_id |-> task_id,
                ret |-> GetTask(task_id)]
    /\ UNCHANGED <<memvars, taskvars>>

NextManager ==
    \/ \E d \in RootDescriptions : ManagerAddTask(d)
    \/ \E d \in RootDescriptions, subtasks \in SubtaskLists :
          ManagerAddComplexTask(d, subtasks)
    \/ \E t \in 1..Len(task), d \in SubtaskDescriptions : TaskAddSubtask(t, d)
    \/ \E id \in 1..(Len(task) + 1), d \in SubtaskDescriptions :
          CallAddSubtask(d, Some(id))
    \/ \E d \in SubtaskDescriptions : CallAddSubtask(d, None)
    \/ \E id \in 1..(Len(task) + 1) : ManagerGetTask(id)
    \/ \E id \in 1..(Len(task) + 1) : ExecBegin(id)
    \/ ExecSubtask
    \/ ExecMain
    \/ \E reply \in Replies : MockChatReturns(reply)
    \/ MockChatRaises

SpecManager == Init /\ [][NextManager]_vars

\* the tool task.add_subtask executed by a tool call of the agent.chat that
\* Task.execute is waiting for, with the Agent's execution context, whose
\* task_manager is the TaskManager running the task
RunAddSubtask(description, parent_task_id) ==
    /\ pc = "chat"
    /\ Len(task) < MaxTasks
    /\ \E r \in {ToolAddSubtask(task, description, parent_task_id)} :
          /\ task' = r.task
          /\ call' = [op |-> "task.add_subtask", raised |-> FALSE,
                      parent_task_id |-> parent_task_id, result |-> r.result,
                      added |-> r.added]
    /\ UNCHANGED <<memvars, tasks, pc, run>>

\* sequential runs of one task tree with an agent whose chat may call the
\* tool task.add_subtask before it returns
NextToolRun ==
    \/ \E d \in RootDescriptions : AddTask(d)
    \/ \E d \in RootDescriptions, subtasks \in SubtaskLists :
          AddComplexTask(d, subtasks)
    \/ \E id \in 1..(Len(task) + 1) : ExecBegin(id)
    \/ ExecSubtask
    \/ ExecMain
    \/ \E id \in 1..Len(task), d \in SubtaskDescriptions :
          RunAddSubtask(d, Some(id))
    \/ \E reply \in Replies : MockChatReturns(reply)
    \/ MockChatRaises

SpecToolRun == Init /\ [][NextToolRun]_vars

(***************************************************************************)
(* Texts of provider replies that the Agent inspects: a text is the        *)
(* sequence of its characters                                              *)
(***************************************************************************)
Digits == {"0", "1", "2", "3", "4", "5", "6", "7", "8", "9"}
Whitespace == {" ", "\n"}

\* str.upper on the letters the replies below are written with
Upper(c) ==
    CASE c = "y" -> "Y"
      [] c = "e" -> "E"
      [] c = "s" -> "S"
      [] c = "n" -> "N"
      [] c = "o" -> "O"
      [] OTHER -> c

UpperText(s) == [k \in 1..Len(s) |-> Upper(s[k])]

\* the `in` operator on strings
Contains(s, sub) ==
    \E k \in 0..(Len(s) - Len(sub)) : SubSeq(s, k + 1, k + Len(sub)) = sub

\* the triage test on the reply as it stands, without upper()
IsComplexReply_CaseSensitive(content) == Contains(content.text, <<"Y", "E", "S">>)

\* agent.py line 180: "YES" in content.upper()
IsComplexReply(content) == Contains(UpperText(content.text), <<"Y", "E", "S">>)

\* str.strip
RECURSIVE LStrip(_)
LStrip(s) == IF Len(s) > 0 /\ Head(s) \in Whitespace THEN LStrip(Tail(s)) ELSE s
RECURSIVE RStrip(_)
RStrip(s) ==
    IF Len(s) > 0 /\ s[Len(s)] \in Whitespace THEN RStrip(SubSeq(s, 1, Len(s) - 1))
    ELSE s
Strip(s) == RStrip(LStrip(s))

\* str.split('\n')
RECURSIVE SplitLines(_)
SplitLines(s) ==
    IF \E k \in 1..Len(s) : s[k] = "\n"
    THEN LET k == CHOOSE k \in 1..Len(s) :
                      s[k] = "\n" /\ \A j \in 1..(k - 1) : s[j] # "\n"
         IN  <<SubSeq(s, 1, k - 1)>> \o SplitLines(SubSeq(s, k + 1, Len(s)))
    ELSE <<s>>

\* line.split('.', 1)[-1]: what follows the first '.', the whole line
\* when it has none
AfterFirstDot(s) ==
    IF \E k \in 1..Len(s) : s[k] = "."
    THEN LET k == CHOOSE k \in 1..Len(s) :
                      s[k] = "." /\ \A j \in 1..(k - 1) : s[j] # "."
         IN  SubSeq(s, k + 1, Len(s))
    ELSE s

\* agent.py lines 133-141: the subtasks one line of the reply contributes
ParseLine(raw) ==
    LET line == Strip(raw)
    IN  IF Len(line) > 0 /\ (line[1] \in Digits \/ line[1] = "-")
        THEN LET rest == IF line[1] \in Digits THEN Strip(AfterFirstDot(line))
                         ELSE Strip(Tail(line))
             IN  IF Len(rest) > 0 THEN <<rest>> ELSE <<>>
        ELSE <<>>

RECURSIVE ParseLines(_)
ParseLines(lines) ==
    IF Len(lines) = 0 THEN <<>>
    ELSE ParseLine(Head(lines)) \o ParseLines(Tail(lines))

\* agent.py lines 130-141
ParseSubtasks(response) == ParseLines(SplitLines(Strip(response)))

(***************************************************************************)
(* agent.py: decompose_task and handle_complex_query of an Agent without   *)
(* bound tools                                                             *)
(***************************************************************************)
\* words of the fixed text of the prompt of decompose_task
DecomposeWords == 59
\* words of the fixed text of the triage prompt of handle_complex_query
TriageWords == 39
\* words of "Complex task completed. Results: "
FinalWords == 4

\* queries and task descriptions handed to the Agent
Queries == { [text |-> <<"q">>, words |-> 1, bpe |-> 1] }

\* replies of the provider to the triage prompt
TriageReplies ==
    { [text |-> <<"Y", "E", "S">>, words |-> 1, bpe |-> 1],
      [text |-> <<"o", "Y", "e", "s">>, words |-> 1, bpe |-> 2],
      [text |-> <<"N", "O">>, words |-> 1, bpe |-> 1],
      [text |-> <<"y", "e", " ", "s">>, words |-> 2, bpe |-> 2] }

\* replies of the provider to the decomposition prompt:
\* "1. a\n2.b ", "\n- a\nok" and "ok"
DecomposeReplies ==
    { [text |-> <<"1", ".", " ", "a", "\n", "2", ".", "b", " ">>, words |-> 3, bpe |-> 6],
      [text |-> <<"\n", "-", " ", "a", "\n", "o", "k">>, words |-> 3, bpe |-> 4],
      [text |-> <<"o", "k">>, words |-> 1, bpe |-> 1] }

\* ProviderResponse of a provider.chat round with the given message
Response(content) ==
    [message |-> content, function_calls |-> <<>>, input_tokens |-> 5,
     output_tokens |-> 1]

\* lines 109-119
DecomposePrompt(description) ==
    [text |-> [decompose |-> description.text],
     words |-> DecomposeWords + description.words,
     bpe |-> DecomposeWords + description.bpe]

\* lines 164-170
TriagePrompt(query) ==
    [text |-> [triage |-> query.text],
     words |-> TriageWords + query.words,
     bpe |-> TriageWords + query.bpe]

\* line 186
FinalResponse(result) ==
    [text |-> [final |-> result], words |-> FinalWords + 1, bpe |-> FinalWords + 1]

\* lines 177-178: msg1 and msg2 are removed; a1 and a2 are the outcomes of
\* the two additions, and the two messages are followed through the
\* evictions and the removals by their positions
TriageRemove(a1, a2) ==
    LET at1 == IF a1.at > a2.evicted THEN a1.at - a2.evicted ELSE 0
        at2 == IF at1 > 0 THEN a2.at - 1 ELSE a2.at
    IN  [messages |-> RemoveMessage(RemoveMessage(a2.messages, at1), at2),
         total |-> a2.total, total_out |-> a2.total_out, raised |-> FALSE,
         evicted |-> a1.evicted + a2.evicted]

\* line 175: the reply is recorded; an IndexError of the ledger propagates
TriageRecord(a1, a2) ==
    IF a2.raised
    THEN [messages |-> a2.messages, total |-> a2.total, total_out |-> a2.total_out,
          raised |-> TRUE, evicted |-> a1.evicted + a2.evicted]
    ELSE TriageRemove(a1, a2)

\* lines 173-178 after the triage prompt was added with outcome a1
TriageReply(a1, total_out, response) ==
    IF a1.raised
    THEN [messages |-> a1.messages, total |-> a1.total, total_out |-> total_out,
          raised |-> TRUE, evicted |-> a1.evicted]
    ELSE TriageRecord(a1, AddResponseMessage(a1.messages, a1.total, total_out,
                                             "assistant", response, None, None))

\* lines 172-178: the triage exchange is added to the ledger and both of its
\* messages are removed again
Triage(msgs, total, total_out, query, response) ==
    TriageReply(AddMessage(msgs, total, "user", TriagePrompt(query), <<>>, None, None),
                total_out, response)

\* lines 122-152: the scratch prompt is added and removed, the reply parsed
\* and the task created; the new Task object is Len(h) + 1
DecomposeTask(msgs, total, h, description, response) ==
    LET a == AddMessage(msgs, total, "user", DecomposePrompt(description), <<>>,
                        None, None)
        subtasks == ParseSubtasks(response.message.text)
        root == Append(h, NewTask(description.text, None))
    IN  IF a.raised
        THEN [messages |-> a.messages, total |-> a.total, raised |-> TRUE, task |-> h,
              ret |-> None, evicted |-> a.evicted, subtasks |-> <<>>]
        ELSE [messages |-> RemoveMessage(a.messages, a.at), total |-> a.total,
              raised |-> FALSE,
              task |-> IF Len(subtasks) > 0
                       THEN AddSubtasks(root, Len(h) + 1, subtasks)
                       ELSE root,
              ret |-> Some(Len(h) + 1), evicted |-> a.evicted, subtasks |-> subtasks]

\* the frame of a running handle_complex_query
QueryFrame(query, content) ==
    [op |-> "handle_complex_query", query |-> query, content |-> content,
     tasks0 |-> tasks, task_id |-> None, result |-> None]

\* the exception of a provider round or of the ledger leaves the Agent
Raised(op) ==
    /\ pc' = "idle"
    /\ run' = None
    /\ call' = [op |-> op, raised |-> TRUE]

\* Agent.chat(user_message) of an Agent without bound tools, called from
\* outside
AgentChat(user_message, response) ==
    /\ Idle
    /\ Len(messages) + 2 <= 2 * ChatCap
    /\ total_output_tokens + response.output_tokens < ChatCap
    /\ LET c == Chat(messages, total_input_tokens, total_output_tokens, user_message,
                     response)
       IN  /\ messages' = c.messages
           /\ total_input_tokens' = c.total
           /\ total_output_tokens' = c.total_out
           /\ call' = [op |-> "chat", raised |-> c.raised, ret |-> response.message]
    /\ UNCHANGED <<max_messages, max_tokens, envvars, sys_sets, taskvars>>

\* decompose_task whose provider round returned `response`, called from
\* outside or by handle_complex_query (lines 107-152 and 182)
DecomposeReturns(description, response) ==
    /\ \/ Idle /\ NoRootYet /\ Len(messages) + 2 <= 2 * ChatCap
       \/ pc = "decompose" /\ description = run.query
    /\ LET d == DecomposeTask(messages, total_input_tokens, task, description, response)
       IN  /\ Len(d.task) <= MaxTasks
           /\ messages' = d.messages
           /\ total_input_tokens' = d.total
           /\ task' = d.task
           /\ tasks' = IF d.raised THEN tasks ELSE tasks \cup {d.ret[1]}
           /\ IF d.raised \/ Idle
              THEN /\ pc' = "idle"
                   /\ run' = None
              ELSE /\ pc' = "execute"
                   /\ run' = [run EXCEPT !.task_id = d.ret]
           /\ call' = [op |-> "decompose_task", raised |-> d.raised, ret |-> d.ret,
                       description |-> description.text, subtasks |-> d.subtasks,
                       evicted |-> d.evicted, response |-> response.message.text]
    /\ UNCHANGED <<total_output_tokens, max_messages, max_tokens, envvars,
                   sys_sets>>

\* the provider round of decompose_task raises: line 127 is not reached
DecomposeRaises(description) ==
    /\ \/ Idle /\ NoRootYet /\ Len(messages) + 2 <= 2 * ChatCap
       \/ pc = "decompose" /\ description = run.query
    /\ LET a == AddMessage(messages, total_input_tokens, "user",
                           DecomposePrompt(description), <<>>, None, None)
       IN  /\ messages' = a.messages
           /\ total_input_tokens' = a.total
    /\ Raised("decompose_task")
    /\ UNCHANGED <<total_output_tokens, max_messages, max_tokens, envvars,
                   sys_sets, task, tasks>>

\* line 180 after the triage with outcome t: the branch on the reply
HcqTriaged(query, response, t) ==
    /\ messages' = t.messages
    /\ total_input_tokens' = t.total
    /\ total_output_tokens' = t.total_out
    /\ pc' = IF t.raised THEN "idle"
             ELSE IF IsComplexReply(response.message) THEN "decompose"
             ELSE "query_chat"
    /\ run' = IF t.raised THEN None ELSE QueryFrame(query, response.message.text)
    /\ call' = [op |-> "triage", raised |-> t.raised,
                reply |-> response.message.text, evicted |-> t.evicted]
    /\ UNCHANGED <<max_messages, max_tokens, envvars, sys_sets, task, tasks>>

\* handle_complex_query, lines 164-180, with a triage round that returned
\* `response`
HcqTriage(query, response) ==
    /\ Idle
    /\ NoRootYet
    /\ Len(messages) + 2 <= 2 * ChatCap
    /\ total_output_tokens + response.output_tokens < ChatCap
    /\ HcqTriaged(query, response,
                  Triage(messages, total_input_tokens, total_output_tokens, query,
                         response))

\* the triage round raises: the triage prompt is in the ledger already
HcqTriageRaises(query) ==
    /\ Idle
    /\ NoRootYet
    /\ Len(messages) + 2 <= 2 * ChatCap
    /\ LET a == AddMessage(messages, total_input_tokens, "user", TriagePrompt(query),
                           <<>>, None, None)
       IN  /\ messages' = a.messages
           /\ total_input_tokens' = a.total
    /\ Raised("handle_complex_query")
    /\ UNCHANGED <<total_output_tokens, max_messages, max_tokens, envvars,
                   sys_sets, task, tasks>>

\* line 183: execute_task_sequentially on the task decompose_task returned
HcqExecute ==
    /\ pc = "execute"
    /\ ExecStart(run.task_id[1], Some(run))

\* lines 186-188: the final response is recorded and returned
HcqFinal ==
    /\ pc = "final"
    /\ LET final_response == FinalResponse(run.result)
           a == AddMessage(messages, total_input_tokens, "assistant", final_response,
                           <<>>, None, None)
       IN  /\ messages' = a.messages
           /\ total_input_tokens' = a.total
           /\ call' = [op |-> "handle_complex_query", raised |-> a.raised,
                       path |-> "complex", ret |-> final_response,
                       content |-> run.content, task_id |-> run.task_id,
                       tasks0 |-> run.tasks0]
    /\ pc' = "idle"
    /\ run' = None
    /\ UNCHANGED <<total_output_tokens, max_messages, max_tokens, envvars,
                   sys_sets, task, tasks>>

\* line 191: return self.chat(query)
HcqChatReturns(response) ==
    /\ pc = "query_chat"
    /\ LET c == Chat(messages, total_input_tokens, total_output_tokens, run.query,
                     response)
       IN  /\ messages' = c.messages
           /\ total_input_tokens' = c.total
           /\ total_output_tokens' = c.total_out
           /\ call' = [op |-> "handle_complex_query", raised |-> c.raised,
                       path |-> "simple", ret |-> response.message,
                       content |-> run.content, task_id |-> run.task_id,
                       tasks0 |-> run.tasks0]
    /\ pc' = "idle"
    /\ run' = None
    /\ UNCHANGED <<max_messages, max_tokens, envvars, sys_sets, task, tasks>>

\* the provider round of that chat raises
HcqChatRaises ==
    /\ pc = "query_chat"
    /\ LET a == AddMessage(messages, total_input_tokens, "user", run.query, <<>>,
                           None, None)
       IN  /\ messages' = a.messages
           /\ total_input_tokens' = a.total
    /\ Raised("handle_complex_query")
    /\ UNCHANGED <<total_output_tokens, max_messages, max_tokens, envvars,
                   sys_sets, task, tasks>>

\* Agent.__init__; the cap of the ledger is the default or a small one, so
\* that ledgers at the cap are explored
InitQuery ==
    /\ \/ messages = <<>> /\ sys_sets = 0
       \/ \E prompt \in SysPrompts :
             messages = SetSystemPrompt(<<>>, prompt) /\ sys_sets = 1
    /\ total_input_tokens = 0
    /\ total_output_tokens = 0
    /\ max_messages \in {MaxMessages, DefaultMaxMessages}
    /\ max_tokens = ContextSize
    /\ input_cost_per_million = models["openai"]["gpt-3.5-turbo"].input_cost
    /\ output_cost_per_million = models["openai"]["gpt-3.5-turbo"].output_cost
    /\ tokenizer_ok \in BOOLEAN
    /\ tools = {}
    /\ supports_tools = TRUE
    /\ registry = InitialRegistry
    /\ workingdir = <<>>
    /\ fs = InitialFs
    /\ task = <<>>
    /\ tasks = {}
    /\ pc = "idle"
    /\ run = None
    /\ call = [op |-> "init", raised |-> FALSE]

NextQuery ==
    \/ \E q \in Queries, r \in Replies :
          AgentChat(q, Response([text |-> r, words |-> 1, bpe |-> 1]))
    \/ \E q \in Queries, r \in DecomposeReplies : DecomposeReturns(q, Response(r))
    \/ \E q \in Queries : DecomposeRaises(q)
    \/ \E q \in Queries, r \in TriageReplies : HcqTriage(q, Response(r))
    \/ \E q \in Queries : HcqTriageRaises(q)
    \/ HcqExecute
    \/ ExecSubtask
    \/ ExecMain
    \/ \E response \in ExecResponses : AgentChatReturns(response)
    \/ AgentChatRaises
    \/ HcqFinal
    \/ \E response \in ExecResponses : HcqChatReturns(response)
    \/ HcqChatRaises

SpecQuery == InitQuery /\ [][NextQuery]_vars

(***************************************************************************)
(* agent.py: Agent.chat with its tool-calling loop, one action per         *)
(* provider round and per requested tool call                              *)
(***************************************************************************)
\* provider rounds of one chat call that are explored
MaxRounds == 3

\* user messages handed to chat
UserMessages == { [text |-> "hi", words |-> 1, bpe |-> 1] }

\* the names in the global registry that an Agent is constructed with
ToolSubsets == { {}, {"echo"} }

\* function_calls of a ProviderResponse: none, one call of a bound tool, a
\* call of a name that is not bound followed by one that is, and a call
\* whose arguments are not JSON
FunctionCallLists ==
    { <<>>,
      <<[id |-> Some("c1"), name |-> "echo", arguments |-> "{}"]>>,
      <<[id |-> Some("c1"), name |-> "nope", arguments |-> "{}"],
        [id |-> Some("c2"), name |-> "echo", arguments |-> "{}"]>>,
      <<[id |-> Some("c1"), name |-> "echo", arguments |-> "{"]>> }

\* ProviderResponse values of provider.chat_with_tools
ToolResponses ==
    { [message |-> [text |-> "r1", words |-> 1, bpe |-> 1], function_calls |-> f,
       input_tokens |-> 5, output_tokens |-> 1] : f \in FunctionCallLists }

\* json.loads accepts the arguments
JsonValid(arguments) == arguments = "{}"

\* the dispatch raising KeyError for a name that is not bound
ToolResult_RaiseIfMissing(bound, tool_call) ==
    IF tool_call.name \in bound /\ JsonValid(tool_call.arguments)
    THEN [raised |-> FALSE, result |-> Some("done")]
    ELSE [raised |-> TRUE, result |-> None]

\* lines 61-70: the result of one requested call; a name that is not bound
\* gives None, arguments that are not JSON make json.loads raise
ToolResult(bound, tool_call) ==
    IF tool_call.name \in bound
    THEN IF JsonValid(tool_call.arguments)
         THEN [raised |-> FALSE, result |-> Some("done")]
         ELSE [raised |-> TRUE, result |-> None]
    ELSE [raised |-> FALSE, result |-> None]

\* str(result)
Str(result) ==
    IF result = None THEN [text |-> "None", words |-> 1, bpe |-> 1]
    ELSE [text |-> result[1], words |-> 1, bpe |-> 1]

\* the tool message carrying no id
ToolCallId_None(tool_call) == None

\* line 72: tool_call.get("id")
ToolCallId(tool_call) == tool_call.id

\* the loop never taking the return of line 57
LoopEnds_Never(tool_calls) == FALSE

\* line 56: not tool_calls
LoopEnds(tool_calls) == Len(tool_calls) = 0

\* the ledger as a record, and the outcome of add_message as one
Ledger ==
    [messages |-> messages, total |-> total_input_tokens,
     total_out |-> total_output_tokens, raised |-> FALSE]
Added(a, total_out) ==
    [messages |-> a.messages, total |-> a.total, total_out |-> total_out,
     raised |-> a.raised]
Responded(a) ==
    [messages |-> a.messages, total |-> a.total, total_out |-> a.total_out,
     raised |-> a.raised]

\* the ledger written whether or not add_to_memory is set
Recorded_Always(add_to_memory, before, after) == after

\* lines 41, 53, 71 and 79: the ledger is only written `if add_to_memory`
Recorded(add_to_memory, before, after) ==
    IF add_to_memory THEN after ELSE before

SetLedger(l) ==
    /\ messages' = l.messages
    /\ total_input_tokens' = l.total
    /\ total_output_tokens' = l.total_out

\* the frame of a running chat: `rounds` counts the provider rounds issued,
\* `n0` and `n1` are the lengths of the ledger when chat was called and when
\* the last provider round was issued
ChatFrame(user_message, add_to_memory) ==
    [op |-> "chat", user_message |-> user_message, add_to_memory |-> add_to_memory,
     rounds |-> 0, tool_calls |-> <<>>, i |-> 0, n0 |-> Len(messages), n1 |-> 0]

\* an exception leaves chat
ChatAborts ==
    /\ pc' = "idle"
    /\ call' = [op |-> "chat", raised |-> TRUE, add_to_memory |-> run.add_to_memory,
                rounds |-> run.rounds, n0 |-> run.n0]
    /\ run' = None

\* lines 41-44 with the ledger l after line 42
ChatBegun(user_message, add_to_memory, l) ==
    /\ SetLedger(l)
    /\ pc' = IF l.raised THEN "idle"
             ELSE IF tools # {} /\ supports_tools THEN "round"
             ELSE "single"
    /\ run' = IF l.raised THEN None
              ELSE ChatFrame(user_message, add_to_memory)
    /\ call' = [op |-> "chat_begin", raised |-> l.raised]

\* Agent.chat(user_message, add_to_memory) is called
ChatBegin(user_message, add_to_memory) ==
    /\ Idle
    /\ Len(messages) + 2 <= 2 * ChatCap
    /\ \E l \in {Recorded(add_to_memory, Ledger,
                         Added(AddMessage(messages, total_input_tokens, "user",
                                          user_message, <<>>, None, None),
                               total_output_tokens))} :
          ChatBegun(user_message, add_to_memory, l)
    /\ UNCHANGED <<max_messages, max_tokens, envvars, sys_sets, task, tasks>>

\* lines 48-57 with the ledger l after line 54
ChatRounded(response, l) ==
    /\ SetLedger(l)
    /\ IF l.raised \/ LoopEnds(response.function_calls)
       THEN /\ pc' = "idle"
            /\ run' = None
            /\ call' = [op |-> "chat", raised |-> l.raised, ret |-> response.message,
                        function_calls |-> response.function_calls,
                        add_to_memory |-> run.add_to_memory,
                        rounds |-> run.rounds + 1, n0 |-> run.n0]
       ELSE /\ pc' = "tools"
            /\ run' = [run EXCEPT !.rounds = @ + 1, !.i = 1, !.n1 = Len(messages),
                         !.tool_calls = response.function_calls]
            /\ call' = [op |-> "chat_round", raised |-> FALSE,
                        function_calls |-> response.function_calls]

\* lines 46-57: a provider round of the loop returned `response`; rounds
\* that request tool calls are explored up to MaxRounds
ChatRound(response) ==
    /\ pc = "round"
    /\ Len(response.function_calls) = 0 \/ run.rounds + 1 < MaxRounds
    /\ \E l \in {Recorded(run.add_to_memory, Ledger,
                         Responded(AddResponseMessage(messages, total_input_tokens,
                                                      total_output_tokens, "assistant",
                                                      response, None, None)))} :
          ChatRounded(response, l)
    /\ UNCHANGED <<max_messages, max_tokens, envvars, sys_sets, task, tasks>>

\* line 47: the provider round raises
ChatRoundRaises ==
    /\ pc = "round"
    /\ ChatAborts
    /\ UNCHANGED <<memvars, task, tasks>>

\* lines 60-72 for the requested call tool_call with result r and the
\* ledger l after line 72
ChatToolCalled(tool_call, r, l) ==
    IF r.raised
    THEN /\ ChatAborts
         /\ UNCHANGED <<messages, total_input_tokens, total_output_tokens>>
    ELSE /\ SetLedger(l)
         /\ IF l.raised
            THEN ChatAborts
            ELSE /\ pc' = IF run.i = Len(run.tool_calls) THEN "round" ELSE "tools"
                 /\ run' = [run EXCEPT !.i = @ + 1]
                 /\ call' = [op |-> "tool_call", raised |-> FALSE,
                             name |-> tool_call.name, result |-> r.result]

\* the ledger after line 72 for the call tool_call with result r
ToolRecorded(tool_call, r) ==
    Recorded(run.add_to_memory, Ledger,
             Added(AddMessage(messages, total_input_tokens, "tool", Str(r.result),
                              <<>>, ToolCallId(tool_call), None),
                   total_output_tokens))

\* one iteration of the loop over the requested calls
ChatToolCall ==
    /\ pc = "tools"
    /\ \E r \in {ToolResult(tools, run.tool_calls[run.i])} :
          \E l \in {ToolRecorded(run.tool_calls[run.i], r)} :
             ChatToolCalled(run.tool_calls[run.i], r, l)
    /\ UNCHANGED <<max_messages, max_tokens, envvars, sys_sets, task, tasks>>

\* lines 75-81 with the ledger l after line 80
ChatSingled(response, l) ==
    /\ SetLedger(l)
    /\ pc' = "idle"
    /\ run' = None
    /\ call' = [op |-> "chat", raised |-> l.raised, ret |-> response.message,
                function_calls |-> <<>>, add_to_memory |-> run.add_to_memory,
                rounds |-> run.rounds + 1, n0 |-> run.n0]

\* lines 75-81: the only round of a chat without applicable tools
ChatSingle(response) ==
    /\ pc = "single"
    /\ \E l \in {Recorded(run.add_to_memory, Ledger,
                         Responded(AddResponseMessage(messages, total_input_tokens,
                                                      total_output_tokens, "assistant",
                                                      response, None, None)))} :
          ChatSingled(response, l)
    /\ UNCHANGED <<max_messages, max_tokens, envvars, sys_sets, task, tasks>>

\* line 75: the provider round raises
ChatSingleRaises ==
    /\ pc = "single"
    /\ ChatAborts
    /\ UNCHANGED <<memvars, task, tasks>>

\* Agent.__init__ with a tool subset and a provider that supports tools or
\* does not
InitChat ==
    /\ \/ messages = <<>> /\ sys_sets = 0
       \/ \E prompt \in SysPrompts :
             messages = SetSystemPrompt(<<>>, prompt) /\ sys_sets = 1
    /\ total_input_tokens = 0
    /\ total_output_tokens = 0
    /\ max_messages = DefaultMaxMessages
    /\ max_tokens = ContextSize
    /\ input_cost_per_million = models["openai"]["gpt-3.5-turbo"].input_cost
    /\ output_cost_per_million = models["openai"]["gpt-3.5-turbo"].output_cost
    /\ tokenizer_ok = TRUE
    /\ tools \in ToolSubsets
    /\ supports_tools \in BOOLEAN
    /\ registry = InitialRegistry
    /\ workingdir = <<>>
    /\ fs = InitialFs
    /\ task = <<>>
    /\ tasks = {}
    /\ pc = "idle"
    /\ run = None
    /\ call = [op |-> "init", raised |-> FALSE]

\* the steps of a running chat
ChatStep ==
    \/ \E response \in ToolResponses : ChatRound(response)
    \/ ChatToolCall
    \/ \E response \in ExecResponses : ChatSingle(response)

NextChat ==
    \/ \E m \in UserMessages, add_to_memory \in BOOLEAN : ChatBegin(m, add_to_memory)
    \/ ChatStep
    \/ ChatRoundRaises
    \/ ChatSingleRaises

SpecChat == InitChat /\ [][NextChat]_vars

\* the provider answers every round and every requested call is dispatched
SpecChatLive == SpecChat /\ WF_vars(ChatStep)

(***************************************************************************)
(* providers/base.py: retry_on_connection_error, one action per attempt of *)
(* the wrapped call                                                        *)
(***************************************************************************)
\* largest max_retries a provider call is wrapped with
MaxRetries == 2

\* backoff_factor values
BackoffFactors == {1, 2}

\* the exception classes the wrapped call raises, each with its base class
ExceptionClasses ==
    {"ConnectionError", "ConnectionResetError", "TimeoutError", "OSError",
     "ValueError", "KeyboardInterrupt"}
BaseClass(c) ==
    CASE c = "ConnectionResetError" -> "ConnectionError"
      [] c = "ConnectionError" -> "OSError"
      [] c = "TimeoutError" -> "OSError"
      [] c = "OSError" -> "Exception"
      [] c = "ValueError" -> "Exception"
      [] c = "KeyboardInterrupt" -> "BaseException"
      [] c = "Exception" -> "BaseException"
      [] OTHER -> "object"

\* isinstance(e, classes) for an exception of class c
RECURSIVE IsInstance(_, _)
IsInstance(c, classes) ==
    IF c \in classes THEN TRUE
    ELSE IF c = "object" THEN FALSE
    ELSE IsInstance(BaseClass(c), classes)

\* a wrapper retrying after every Exception
IsConnectionError_AnyException(c) == IsInstance(c, {"Exception"})

\* line 24: except (ConnectionError, TimeoutError, OSError)
IsConnectionError(c) == IsInstance(c, {"ConnectionError", "TimeoutError", "OSError"})

\* the outcomes of one invocation of the wrapped call
CallOutcomes ==
    { [kind |-> "ok", class |-> "none"] } \cup
    { [kind |-> "error", class |-> c] : c \in ExceptionClasses }

\* 2 ** attempt
RECURSIVE Pow2(_)
Pow2(n) == IF n = 0 THEN 1 ELSE 2 * Pow2(n - 1)

\* the record of a finished wrapper call: `trace` lists the outcomes of the
\* invocations of the wrapped call, `exc` is the index in it of the exception
\* raised (0 for none), `slept` the waits of time.sleep
RetryReturned(r, raised, exc) ==
    [op |-> "retry", raised |-> raised, max_retries |-> r.max_retries,
     trace |-> r.trace, exc |-> exc, slept |-> r.slept]

\* lines 19-21: the wrapper is called
RetryBegin(max_retries, backoff_factor) ==
    /\ Idle
    /\ pc' = "attempt"
    /\ run' = [op |-> "retry", max_retries |-> max_retries,
               backoff_factor |-> backoff_factor, attempt |-> 0,
               last_exception |-> 0, trace |-> <<>>, slept |-> <<>>]
    /\ call' = [op |-> "retry_begin", raised |-> FALSE]
    /\ UNCHANGED <<memvars, task, tasks>>

\* lines 21-36: one iteration of the loop, in which the wrapped call ends
\* with `outcome`
RetryAttempt(outcome) ==
    /\ pc = "attempt"
    /\ LET r == [run EXCEPT !.trace = Append(@, outcome)]
           n == Len(r.trace)
       IN  IF outcome.kind = "ok"
           THEN /\ pc' = "idle"
                /\ run' = None
                /\ call' = RetryReturned(r, FALSE, 0)
           ELSE IF IsConnectionError(outcome.class)
           THEN IF run.attempt < run.max_retries
                THEN /\ pc' = "attempt"
                     /\ run' = [r EXCEPT !.last_exception = n,
                                         !.attempt = @ + 1,
                                         !.slept = Append(@, run.backoff_factor *
                                                             Pow2(run.attempt))]
                     /\ call' = [op |-> "retry_sleep", raised |-> FALSE]
                ELSE /\ pc' = "idle"
                     /\ run' = None
                     /\ call' = RetryReturned(r, TRUE, n)
           ELSE /\ pc' = "idle"
                /\ run' = None
                /\ call' = RetryReturned(r, TRUE, n)
    /\ UNCHANGED <<memvars, task, tasks>>

NextRetry ==
    \/ \E max_retries \in 0..MaxRetries, backoff_factor \in BackoffFactors :
          RetryBegin(max_retries, backoff_factor)
    \/ \E outcome \in CallOutcomes : RetryAttempt(outcome)

\* a provider whose chat is wrapped, next to a freshly constructed Agent
SpecRetry == Init /\ [][NextRetry]_vars

(***************************************************************************)
(* tools/filesystem: write_file and delete_file on the filesystem          *)
(***************************************************************************)
\* the file_path arguments handed to the tools
FilePaths ==
    { <<"/", "w", "/", "r", "/", "f">>,
      <<"/", "w", "/", "r", "/", "d", "/", "g">>,
      <<"/", "w", "/", "r">>,
      <<"/", "w", "/", "r", "2", "/", "f">>,
      <<"/", "w", "/", "r", "2", "/", "g">>,
      <<"/", "w", "/", "x", "/", "g">>,
      <<"/", "w", "/", "r", "/", ".", ".", "/", "r", "2", "/", "f">>,
      <<".", ".", "/", "x", "/", "g">>,
      <<"g">>,
      <<"f", "/", "g">> }

\* the content arguments of write_file
FileContents == {"new"}

\* the working directories a context is configured with; the empty string
\* is no restriction
WorkingDirs == { <<>>, <<"/", "w", "/", "r">> }

\* Path.parent
ParentPath(path) == IF Len(path) = 0 THEN path ELSE SubSeq(path, 1, Len(path) - 1)

\* Path.is_file, Path.is_dir and Path.exists
IsFile(f, path) == \E x \in f.files : x.path = path
IsDir(f, path) == path \in f.dirs
Exists(f, path) == IsFile(f, path) \/ IsDir(f, path)

\* a proper ancestor of the path is a file
UnderFile(f, path) == \E n \in 0..(Len(path) - 1) : IsFile(f, SubSeq(path, 1, n))

\* Path.mkdir(parents=True, exist_ok=True): the missing directories down to
\* dir are created; a file in the way raises
Mkdir(f, dir) ==
    IF IsFile(f, dir) \/ UnderFile(f, dir)
    THEN [fs |-> f, raised |-> TRUE]
    ELSE [fs |-> [f EXCEPT !.dirs = @ \cup { SubSeq(dir, 1, n) : n \in 0..Len(dir) }],
          raised |-> FALSE]

\* open(path, 'w') and f.write(content): a directory at the path or a
\* missing parent directory raises
WriteOpen(f, path, content) ==
    IF IsDir(f, path) \/ ~IsDir(f, ParentPath(path))
    THEN [fs |-> f, raised |-> TRUE]
    ELSE [fs |-> [f EXCEPT !.files = { x \in @ : x.path # path } \cup
                                      {[path |-> path, content |-> content]}],
          raised |-> FALSE]

\* write_file lines 26-40 for a path that passed _validate_path
WriteResolved(f, path, content, create_dirs) ==
    IF create_dirs /\ Mkdir(f, ParentPath(path)).raised
    THEN [fs |-> f, result |-> "Error writing to file"]
    ELSE IF WriteOpen(IF create_dirs THEN Mkdir(f, ParentPath(path)).fs ELSE f,
                      path, content).raised
         THEN [fs |-> IF create_dirs THEN Mkdir(f, ParentPath(path)).fs ELSE f,
               result |-> "Error writing to file"]
         ELSE [fs |-> WriteOpen(IF create_dirs THEN Mkdir(f, ParentPath(path)).fs ELSE f,
                                path, content).fs,
               result |-> "Successfully wrote"]

\* write_file
WriteFile(file_path, content, create_dirs) ==
    /\ Idle
    /\ \E v \in {ValidatePath(workingdir, file_path)} :
          IF ~v.is_valid
          THEN /\ fs' = fs
               /\ call' = [op |-> "write_file", raised |-> FALSE,
                           file_path |-> file_path, result |-> v.error]
          ELSE \E w \in {WriteResolved(fs, v.path, content, create_dirs)} :
                  /\ fs' = w.fs
                  /\ call' = [op |-> "write_file", raised |-> FALSE,
                              file_path |-> file_path, result |-> w.result]
    /\ UNCHANGED <<messages, total_input_tokens, total_output_tokens, max_messages,
                   max_tokens, costvars, registry, tokenizer_ok, tools, supports_tools, workingdir,
                   sys_sets, taskvars>>

\* delete_file lines 24-32 for a path that passed _validate_path
DeleteResolved(f, path) ==
    IF ~Exists(f, path) THEN [fs |-> f, result |-> "Error: File does not exist"]
    ELSE IF ~IsFile(f, path) THEN [fs |-> f, result |-> "Error: is not a file"]
    ELSE [fs |-> [f EXCEPT !.files = { x \in @ : x.path # path }],
          result |-> "Successfully deleted"]

\* delete_file
DeleteFile(file_path) ==
    /\ Idle
    /\ \E v \in {ValidatePath(workingdir, file_path)} :
          IF ~v.is_valid
          THEN /\ fs' = fs
               /\ call' = [op |-> "delete_file", raised |-> FALSE,
                           file_path |-> file_path, result |-> v.error]
          ELSE \E d \in {DeleteResolved(fs, v.path)} :
                  /\ fs' = d.fs
                  /\ call' = [op |-> "delete_file", raised |-> FALSE,
                              file_path |-> file_path, result |-> d.result]
    /\ UNCHANGED <<messages, total_input_tokens, total_output_tokens, max_messages,
                   max_tokens, costvars, registry, tokenizer_ok, tools, supports_tools, workingdir,
                   sys_sets, taskvars>>

\* a ToolExecutionContext with or without a working directory, over the
\* initial filesystem
InitFs ==
    /\ messages = <<>>
    /\ total_input_tokens = 0
    /\ total_output_tokens = 0
    /\ max_messages = DefaultMaxMessages
    /\ max_tokens = ContextSize
    /\ input_cost_per_million = models["openai"]["gpt-3.5-turbo"].input_cost
    /\ output_cost_per_million = models["openai"]["gpt-3.5-turbo"].output_cost
    /\ tokenizer_ok = TRUE
    /\ tools = {"write_file", "delete_file"}
    /\ supports_tools = TRUE
    /\ registry = InitialRegistry
    /\ workingdir \in WorkingDirs
    /\ fs = InitialFs
    /\ sys_sets = 0
    /\ task = <<>>
    /\ tasks = {}
    /\ pc = "idle"
    /\ run = None
    /\ call = [op |-> "init", raised |-> FALSE]

NextFs ==
    \/ \E file_path \in FilePaths, content \in FileContents, create_dirs \in BOOLEAN :
          WriteFile(file_path, content, create_dirs)
    \/ \E file_path \in FilePaths : DeleteFile(file_path)

SpecFs == InitFs /\ [][NextFs]_vars

(***************************************************************************)
(* agent.py: the parser of decompose_task applied to replies               *)
(***************************************************************************)
\* longest reply the parser is applied to, next to the reply of the example
MaxReplyLen == 3

\* the characters the replies are written with
ReplyAlphabet == {"1", ".", "-", " ", "\n", "a"}

\* the reply '1. Do X', '2. Do Y', '- Do Z', '', 'Notes: ignore this'
ExampleReply ==
    <<"1", ".", " ", "D", "o", " ", "X", "\n",
      "2", ".", " ", "D", "o", " ", "Y", "\n",
      "-", " ", "D", "o", " ", "Z", "\n",
      "\n",
      "N", "o", "t", "e", "s", ":", " ", "i", "g", "n", "o", "r", "e", " ",
      "t", "h", "i", "s">>

\* the replies of the provider
ParserReplies ==
    UNION { [1..n -> ReplyAlphabet] : n \in 0..MaxReplyLen } \cup {ExampleReply}

\* agent.py lines 130-141 on the reply `response`
Parse(response) ==
    /\ Idle
    /\ call' = [op |-> "parse", raised |-> FALSE, response |-> response,
                ret |-> ParseSubtasks(response)]
    /\ UNCHANGED <<memvars, taskvars>>

NextParse == \E response \in ParserReplies : Parse(response)

SpecParse == Init /\ [][NextParse]_vars

(***************************************************************************)
(* Construction: Memory.__init__ (memory.py lines 9-19) and                *)
(* Agent.__init__ (agent.py lines 13-38).  While pc = "new" no Memory      *)
(* object exists: its attributes are unbound, the empty ledger and the     *)
(* zeros of the state stand for nothing.                                   *)
(***************************************************************************)
\* provider names handed to Memory(...)
ProviderNames == {"openai", "anthropic", "xai", "google"}

\* model names handed to Memory(...) and to the providers: the models of
\* the table and the defaults of AnthropicProvider and XAIProvider
ModelNames ==
    UNION { DOMAIN models[p] : p \in DOMAIN models } \cup
    {"claude-3-sonnet-20240229", "grok-beta"}

\* the names of the Provider classes, and of a class of a test
ProviderClasses ==
    { <<"O", "p", "e", "n", "A", "I", "P", "r", "o", "v", "i", "d", "e", "r">>,
      <<"A", "n", "t", "h", "r", "o", "p", "i", "c", "P", "r", "o", "v", "i", "d", "e", "r">>,
      <<"X", "A", "I", "P", "r", "o", "v", "i", "d", "e", "r">>,
      <<"M", "o", "c", "k", "P", "r", "o", "v", "i", "d", "e", "r">> }

\* max_messages arguments of Memory(...)
MaxMessagesArgs == {MaxMessages, DefaultMaxMessages}

\* str.replace('Provider', '')
RECURSIVE RemoveProvider(_)
RemoveProvider(s) ==
    IF Len(s) < 8 THEN s
    ELSE IF SubSeq(s, 1, 8) = <<"P", "r", "o", "v", "i", "d", "e", "r">>
    THEN RemoveProvider(SubSeq(s, 9, Len(s)))
    ELSE <<Head(s)>> \o RemoveProvider(Tail(s))

\* str.lower on the letters of the class names
LowerChar(c) ==
    LET upper == "A" :> "a" @@ "I" :> "i" @@ "M" :> "m" @@ "O" :> "o" @@ "X" :> "x"
    IN  IF c \in DOMAIN upper THEN upper[c] ELSE c

\* the string of a sequence of characters
RECURSIVE Join(_)
Join(s) == IF s = <<>> THEN "" ELSE Head(s) \o Join(Tail(s))

\* agent.py line 15: the provider name derived from the class name
ProviderName(cls) ==
    LET stripped == RemoveProvider(cls)
    IN  Join([k \in 1..Len(stripped) |-> LowerChar(stripped[k])])

\* Memory(max_messages, provider, model): get_model_info raises before an
\* object is returned, or the object has the entry's prices and context size
MemoryNew(mm, provider, model) ==
    /\ pc = "new"
    /\ \E i \in {get_model_info(provider, model)} :
          IF i.raised
          THEN /\ call' = [op |-> "Memory", raised |-> TRUE, error |-> i.error,
                           provider |-> provider, model |-> model]
               /\ UNCHANGED <<memvars, taskvars>>
          ELSE /\ messages' = <<>>
               /\ max_messages' = mm
               /\ input_cost_per_million' = i.info[1].input_cost
               /\ output_cost_per_million' = i.info[1].output_cost
               /\ max_tokens' = i.info[1].context_size
               /\ total_input_tokens' = 0
               /\ total_output_tokens' = 0
               /\ pc' = "idle"
               /\ call' = [op |-> "Memory", raised |-> FALSE, error |-> "",
                           provider |-> provider, model |-> model]
               /\ UNCHANGED <<tokenizer_ok, tools, supports_tools, registry, fsvars,
                              sys_sets, task, tasks, run>>

\* Agent(provider, system_prompt): Memory(provider=provider_name,
\* model=provider.model) with the default max_messages, an empty
\* TaskManager, no tools, then set_system_prompt for a non-empty prompt
AgentNew(cls, model, system_prompt) ==
    /\ pc = "new"
    /\ \E provider \in {ProviderName(cls)} :
       \E i \in {get_model_info(provider, model)} :
          IF i.raised
          THEN /\ call' = [op |-> "Agent", raised |-> TRUE, error |-> i.error,
                           provider |-> provider, model |-> model]
               /\ UNCHANGED <<memvars, taskvars>>
          ELSE /\ messages' = IF system_prompt = None THEN <<>>
                               ELSE SetSystemPrompt(<<>>, system_prompt[1])
               /\ sys_sets' = IF system_prompt = None THEN 0 ELSE 1
               /\ max_messages' = DefaultMaxMessages
               /\ input_cost_per_million' = i.info[1].input_cost
               /\ output_cost_per_million' = i.info[1].output_cost
               /\ max_tokens' = i.info[1].context_size
               /\ total_input_tokens' = 0
               /\ total_output_tokens' = 0
               /\ tools' = {}
               /\ task' = <<>>
               /\ tasks' = {}
               /\ pc' = "idle"
               /\ call' = [op |-> "Agent", raised |-> FALSE, error |-> "",
                           provider |-> provider, model |-> model]
               /\ UNCHANGED <<tokenizer_ok, supports_tools, registry, fsvars, run>>

\* before any construction
InitNew ==
    /\ messages = <<>>
    /\ total_input_tokens = 0
    /\ total_output_tokens = 0
    /\ max_messages = 0
    /\ max_tokens = 0
    /\ input_cost_per_million = 0
    /\ output_cost_per_million = 0
    /\ tokenizer_ok = TRUE
    /\ tools = {}
    /\ supports_tools = TRUE
    /\ registry = InitialRegistry
    /\ workingdir = <<>>
    /\ fs = InitialFs
    /\ sys_sets = 0
    /\ task = <<>>
    /\ tasks = {}
    /\ pc = "new"
    /\ run = None
    /\ call = [op |-> "init", raised |-> FALSE]

\* a construction, then add_message on the object that it returned, while
\* the ledger holds at most MaxMessages messages
NextNew ==
    \/ \E mm \in MaxMessagesArgs, provider \in ProviderNames, model \in ModelNames :
          MemoryNew(mm, provider, model)
    \/ \E cls \in ProviderClasses, model \in ModelNames,
          system_prompt \in {None} \cup { Some(c) : c \in SysPrompts } :
          AgentNew(cls, model, system_prompt)
    \/ /\ pc = "idle"
       /\ Len(messages) <= MaxMessages
       /\ \E content \in MemContents : MemAddMessage("user", content, None)

SpecNew == InitNew /\ [][NextNew]_vars

(***************************************************************************)
(* The tool registries in operation                                        *)
(***************************************************************************)
\* global_tool_registry.register_tool(tool), on the instance of either class
RegistryRegisterTool(module, tool) ==
    /\ Idle
    /\ registry' = [registry EXCEPT ![module] = RegisterTool(@, tool)]
    /\ call' = [op |-> "register_tool", module |-> module, tool |-> tool,
                before |-> registry[module], ret |-> NoTools]
    /\ UNCHANGED <<messages, total_input_tokens, total_output_tokens, max_messages,
                   max_tokens, costvars, tokenizer_ok, tools, supports_tools, fsvars,
                   sys_sets, taskvars>>

\* global_tool_registry.get_tools_by_names(tool_names) of tool_registry.py
RegistryGetToolsByNames(tool_names) ==
    /\ Idle
    /\ \E r \in {GetToolsByNames(registry.tool_registry, tool_names)} :
          /\ registry' = [registry EXCEPT !.tool_registry = r.tools]
          /\ call' = [op |-> "get_tools_by_names", module |-> "tool_registry",
                      tool_names |-> tool_names,
                      before |-> registry.tool_registry, ret |-> r.ret]
    /\ UNCHANGED <<messages, total_input_tokens, total_output_tokens, max_messages,
                   max_tokens, costvars, tokenizer_ok, tools, supports_tools, fsvars,
                   sys_sets, taskvars>>

\* global_tool_registry.get_tools_by_names(tool_names) of tools.py; ret is
\* the `tools` dict of the registry that is returned
RegistryGetToolsByNames_ToolsPy(tool_names) ==
    /\ Idle
    /\ \E r \in {GetToolsByNames_ToolsPy(registry.tools_py, tool_names)} :
          /\ registry' = [registry EXCEPT !.tools_py = r.tools]
          /\ call' = [op |-> "get_tools_by_names", module |-> "tools_py",
                      tool_names |-> tool_names,
                      before |-> registry.tools_py, ret |-> r.ret]
    /\ UNCHANGED <<messages, total_input_tokens, total_output_tokens, max_messages,
                   max_tokens, costvars, tokenizer_ok, tools, supports_tools, fsvars,
                   sys_sets, taskvars>>

NextRegistry ==
    \/ \E module \in {"tool_registry", "tools_py"}, tool \in ToolObjects :
          RegistryRegisterTool(module, tool)
    \/ \E tool_names \in ToolNameLists : RegistryGetToolsByNames(tool_names)
    \/ \E tool_names \in ToolNameLists : RegistryGetToolsByNames_ToolsPy(tool_names)

SpecRegistry == Init /\ [][NextRegistry]_vars

(***************************************************************************)
(* Properties of the ledger                                                *)
(***************************************************************************)
SystemMessages(msgs) == SelectSeq(msgs, LAMBDA m : m.role = "system")
NonSystemMessages(msgs) == SelectSeq(msgs, LAMBDA m : m.role # "system")

\* sum of the recorded input_tokens of the first k messages
RECURSIVE SumFront(_, _)
SumFront(msgs, k) ==
    IF k = 0 THEN 0 ELSE msgs[k].input_tokens + SumFront(msgs, k - 1)

\* msgs without its first k messages
DropFront(msgs, k) == SubSeq(msgs, k + 1, Len(msgs))

\* C6: once a system prompt has been set, the ledger holds exactly one
\* system message and it is the first element.
C6_OneSystemMessageFirst ==
    sys_sets > 0 =>
        /\ Len(messages) >= 1
        /\ messages[1].role = "system"
        /\ Len(SystemMessages(messages)) = 1

\* C7: every set_system_prompt call, the second one included, leaves exactly
\* one system message, at index 0, carrying the prompt of that call, and
\* keeps the non-system messages and their order.
C7_SetSystemPromptReplaces ==
    [][call'.op = "set_system_prompt" =>
            /\ Len(messages') >= 1
            /\ messages'[1].role = "system"
            /\ messages'[1].content = call'.prompt
            /\ Len(SystemMessages(messages')) = 1
            /\ NonSystemMessages(messages') = NonSystemMessages(messages)]_vars

\* a second set_system_prompt call has just replaced the prompt of the first
\* in a ledger that also holds other messages
C7_Witness ==
    /\ call.op = "set_system_prompt"
    /\ sys_sets >= 2
    /\ Len(messages) >= 2
    /\ \E k \in 1..Len(messages) : messages[k].role = "assistant"

\* C8: when add_message returns, the count is at most max_messages and
\* total_input_tokens plus the new message's estimate is at most max_tokens;
\* the ledger is the old one with the new message appended and its first k
\* messages removed, and after every smaller number of removals one of the
\* two bounds was still exceeded.
C8_EvictionBounds ==
    [][(call'.op = "add_message" /\ ~call'.raised) =>
            LET est == call'.ret.input_tokens_estimate[1]
                all == Append(messages, call'.ret)
                k   == Len(all) - Len(messages')
            IN  /\ Len(messages') <= max_messages
                /\ total_input_tokens' + est <= max_tokens
                /\ k >= 0
                /\ messages' = DropFront(all, k)
                /\ total_input_tokens' = total_input_tokens - SumFront(all, k)
                /\ \A j \in 0..(k - 1) :
                      \/ Len(all) - j > max_messages
                      \/ total_input_tokens - SumFront(all, j) + est > max_tokens]_vars

\* add_message has returned after evicting because of the token budget alone
C8_Witness ==
    /\ call.op = "add_message"
    /\ ~call.raised
    /\ call.evicted >= 1
    /\ Len(messages) < max_messages
    /\ call.at = Len(messages)
    /\ total_input_tokens > 0

\* C9: add_response_message reporting r input and o output tokens, the
\* totals before the reconciliation being T (the total left by the evictions
\* of this call) and O, stores input_tokens_total = r and input_tokens = r - T
\* on the message and leaves the totals T + r and O + o.
C9_Reconciliation ==
    [][(call'.op = "add_response_message" /\ ~call'.raised) =>
            LET r == call'.response.input_tokens
                o == call'.response.output_tokens
                k == Len(messages) + 1 - Len(messages')
                T == total_input_tokens - SumFront(messages, k)
                O == total_output_tokens
            IN  /\ call'.at = Len(messages')
                /\ messages'[call'.at] = call'.ret
                /\ call'.ret.input_tokens_total = Some(r)
                /\ call'.ret.input_tokens = r - T
                /\ call'.ret.output_tokens = o
                /\ total_input_tokens' = T + r
                /\ total_output_tokens' = O + o]_vars

\* a response has been reconciled against a non-zero running total after an
\* eviction changed that total
C9_Witness ==
    /\ call.op = "add_response_message"
    /\ ~call.raised
    /\ call.evicted >= 1
    /\ call.ret.input_tokens # call.response.input_tokens
    /\ total_input_tokens > call.response.input_tokens

\* C11: every eviction of add_message lowers total_input_tokens by the
\* input_tokens recorded on the evicted message (0 when it was never
\* reconciled), whatever its estimate, and leaves total_output_tokens as it
\* was: after k evictions the total is the old one minus the recorded
\* input_tokens of the k messages popped from the front.
C11_EvictionDecrement ==
    [][call'.op = "add_message" =>
            LET all == Append(messages, call'.ret)
                k   == Len(all) - Len(messages')
            IN  /\ k = call'.evicted
                /\ messages' = DropFront(all, k)
                /\ total_input_tokens' = total_input_tokens - SumFront(all, k)
                /\ total_output_tokens' = total_output_tokens]_vars

\* add_message has evicted a reconciled message whose recorded input_tokens
\* differ from what the estimates of the evicted messages add up to
C11_Witness ==
    /\ call.op = "add_message"
    /\ call.evicted = 1
    /\ call.freed > 0
    /\ call.freed # 2

\* C10: on a fresh ledger add_message of a non-empty user message returns a
\* message with input_tokens > 0 and total_input_tokens equals it; a
\* following add_response_message reporting o output tokens leaves o as the
\* message's output_tokens and as total_output_tokens.
C10_FreshLedgerTokens ==
    [][/\ (/\ call.op = "init"
            /\ call'.op = "add_message"
            /\ ~call'.raised
            /\ call'.ret.role = "user"
            /\ call'.ret.content.words > 0)
           => /\ call'.ret.input_tokens > 0
              /\ total_input_tokens' = call'.ret.input_tokens
       /\ (/\ call.op = "add_message"
            /\ total_output_tokens = 0
            /\ call'.op = "add_response_message"
            /\ ~call'.raised)
           => /\ call'.ret.output_tokens = call'.response.output_tokens
              /\ total_output_tokens' = call'.response.output_tokens]_vars

(***************************************************************************)
(* Properties of the task tree and of the sequential executor              *)
(***************************************************************************)
Subtasks(t) == task[t].subtasks
Parent(t) == task[t].parent_task[1]

\* the status changes named by the life cycle of a Task
ForwardStep(t) ==
    LET a == task[t].status
        b == task'[t].status
    IN  \/ a = b
        \/ a = "pending" /\ b = "in_progress"
        \/ a = "in_progress" /\ b \in {"completed", "failed"}
        \/ IsComplex(task, t) /\ a \in {"pending", "in_progress"} /\ b = "completed"

\* C1: over every sequence of TaskManager and Task operations the status of
\* a task only changes pending -> in_progress, in_progress -> completed,
\* in_progress -> failed or, for a parent whose subtasks finish, pending or
\* in_progress -> completed.
C1_StatusForwardOnly ==
    [][\A t \in 1..Len(task) : ForwardStep(t)]_vars

\* C2: complete() on a subtask of a parent that is not completed leaves the
\* parent not completed while some subtask is not completed, and completed,
\* by that very call, once every subtask is.
C2_ParentCompletesWithLastSubtask ==
    [][(/\ call'.op = "complete"
        /\ task[call'.task].parent_task # None
        /\ task[Parent(call'.task)].status # "completed") =>
            LET p == Parent(call'.task)
            IN  task'[p].status = "completed" <=>
                    \A k \in 1..Len(Subtasks(p)) :
                        task'[Subtasks(p)[k]].status = "completed"]_vars

\* complete() on the last of two or more subtasks has completed the parent
C2_Witness ==
    /\ call.op = "complete"
    /\ task[call.task].parent_task # None
    /\ LET p == Parent(call.task)
       IN  /\ Len(Subtasks(p)) >= 2
           /\ task[p].status = "completed"
           /\ task[p].result = None
           /\ call.task # Subtasks(p)[Len(Subtasks(p))]

\* C3: a call on a complex task whose n subtasks were all pending, once it
\* has returned, has invoked agent.chat n + 1 times, for the subtasks in
\* definition order and then for the parent, and the parent and every
\* subtask are completed.
C3_ChatPerSubtaskPlusParent ==
    (/\ call.op = "execute_task_sequentially"
     /\ call.found
     /\ ~call.raised
     /\ call.n0 >= 1
     /\ call.pending0 = 1..call.n0) =>
        /\ Len(call.executed) = call.n0 + 1
        /\ call.executed = Append(Subtasks(call.task), call.task)
        /\ task[call.task].status = "completed"
        /\ \A k \in 1..Len(Subtasks(call.task)) :
              task[Subtasks(call.task)[k]].status = "completed"

\* such a call on a task with two or more subtasks has returned
C3_Witness ==
    /\ call.op = "execute_task_sequentially"
    /\ call.found
    /\ ~call.raised
    /\ call.n0 >= 2
    /\ call.pending0 = 1..call.n0

\* {description, result} of the completed ones among the first n subtasks of
\* t, in index order
CompletedEntries(t, n) ==
    LET done == SelectSeq([k \in 1..n |-> Subtasks(t)[k]],
                          LAMBDA s : task[s].status = "completed")
    IN  [k \in 1..Len(done) |->
            [description |-> task[done[k]].description, result |-> task[done[k]].result]]

\* C4: while agent.chat runs for the subtask at index i, the context handed
\* to Task.execute and embedded in the prompt is the list of {description,
\* result} of the completed subtasks at the indices before i, in index order;
\* while it runs for the parent, that of all completed subtasks.
C4_PreviousResultsContext ==
    pc = "chat" =>
        LET expected ==
                IF run.kind = "subtask" THEN CompletedEntries(run.task_id, run.i - 1)
                ELSE IF run.kind = "main"
                     THEN CompletedEntries(run.task_id, Len(Subtasks(run.task_id)))
                     ELSE <<>>
        IN  /\ run.previous_results = expected
            /\ run.prompt.text.previous = expected
            /\ run.kind = "subtask" => run.target = Subtasks(run.task_id)[run.i]

\* agent.chat runs for the second subtask with the first one's result as
\* context
C4_Witness ==
    /\ pc = "chat"
    /\ run.kind = "subtask"
    /\ run.i >= 2
    /\ Len(run.previous_results) >= 1

\* C5: the user prompt and the assistant reply that an execution of a task
\* records in the ledger carry that task's id, and get_messages_for_task of
\* that id returns them.
C5_ExchangeTaggedWithTask ==
    [][(pc = "chat" /\ Len(messages') = Len(messages) + 2) =>
            LET t == Some(run.target)
                n == Len(messages')
            IN  /\ messages'[n - 1].task_id = t
                /\ messages'[n].task_id = t
                /\ Len(GetMessagesForTask(messages', t)) =
                       Len(GetMessagesForTask(messages, t)) + 2]_vars

(***************************************************************************)
(* Properties of decompose_task and handle_complex_query                   *)
(***************************************************************************)
\* C12: a decompose_task call that returns leaves the message sequence of
\* the ledger exactly as it was before the call, also when the ledger was at
\* its max_messages cap.
C12_DecomposeKeepsLedger ==
    [][(call'.op = "decompose_task" /\ ~call'.raised) => messages' = messages]_vars

\* C13: after the triage step of handle_complex_query the ledger holds
\* neither the triage prompt nor the triage reply, and every message it held
\* before the call is still there, in the same order.
C13_TriageKeepsLedger ==
    [][(call'.op = "triage" /\ ~call'.raised) => messages' = messages]_vars

\* YES occurs in the text in some mix of upper and lower case
HasYes(text) ==
    \E k \in 1..(Len(text) - 2) :
        /\ text[k] \in {"Y", "y"}
        /\ text[k + 1] \in {"E", "e"}
        /\ text[k + 2] \in {"S", "s"}

RootTasks(h) == { t \in 1..Len(h) : h[t].parent_task = None }

InChat == pc \in {"round", "tools", "single"}

\* C15: when the loop reaches a requested call whose function name is not
\* in the bound subset, the step does not raise, a tool-role message with
\* the id of that call is appended (add_to_memory set), and the loop goes on
\* with the next call of the round or, after the last one, with the next
\* provider round.
C15_UnknownToolDoesNotRaise ==
    [][(pc = "tools" /\ run.tool_calls[run.i].name \notin tools) =>
            LET tool_call == run.tool_calls[run.i]
                n == Len(messages')
            IN  /\ call'.op = "tool_call"
                /\ ~call'.raised
                /\ run' # None
                /\ run'.i = run.i + 1
                /\ run'.tool_calls = run.tool_calls
                /\ pc' = IF run.i < Len(run.tool_calls) THEN "tools" ELSE "round"
                /\ run.add_to_memory =>
                      /\ n = Len(messages) + 1
                      /\ SubSeq(messages', 1, n - 1) = messages
                      /\ messages'[n].role = "tool"
                      /\ messages'[n].tool_call_id = tool_call.id]_vars

\* the call of a name that is not bound has been answered with a tool
\* message and the next call of the same round is about to be dispatched
C15_Witness ==
    /\ pc = "tools"
    /\ run.i = 2
    /\ run.tool_calls[1].name \notin tools
    /\ run.add_to_memory
    /\ messages[Len(messages)].role = "tool"
    /\ messages[Len(messages)].tool_call_id = run.tool_calls[1].id

\* C16: when the next provider round is about to be issued after a round
\* that returned k >= 1 function calls (add_to_memory set, no eviction), the
\* ledger has received, since that round was issued, the assistant message
\* of the round followed by exactly k tool-role messages, the i-th carrying
\* the id of the i-th requested call.
C16_ToolMessagesFollowAssistant ==
    (pc = "round" /\ run.rounds >= 1 /\ run.add_to_memory) =>
        LET k == Len(run.tool_calls)
            n == Len(messages)
        IN  /\ k >= 1
            /\ n = run.n1 + 1 + k
            /\ messages[n - k].role = "assistant"
            /\ messages[n - k].tool_calls = run.tool_calls
            /\ \A i \in 1..k :
                  /\ messages[n - k + i].role = "tool"
                  /\ messages[n - k + i].tool_call_id = run.tool_calls[i].id

\* the second provider round is about to be issued after a round with two
\* requested calls
C16_Witness ==
    /\ pc = "round"
    /\ run.rounds >= 1
    /\ run.add_to_memory
    /\ Len(run.tool_calls) = 2
    /\ messages[Len(messages)].tool_call_id = Some("c2")

\* C17: every step of a chat call made with add_to_memory=false, its first
\* and its last included, leaves the message list, total_input_tokens and
\* total_output_tokens of the ledger unchanged.
C17_ProbeLeavesLedger ==
    [][(\/ InChat /\ ~run.add_to_memory
        \/ pc = "idle" /\ pc' # "idle" /\ ~run'.add_to_memory) =>
            /\ messages' = messages
            /\ total_input_tokens' = total_input_tokens
            /\ total_output_tokens' = total_output_tokens]_vars

\* a chat with add_to_memory=false has returned after two provider rounds
\* and the tool calls of the first
C17_Witness ==
    /\ call.op = "chat"
    /\ ~call.raised
    /\ ~call.add_to_memory
    /\ call.rounds >= 2

\* C18: a provider round of the loop whose function_calls is empty ends the
\* chat, which returns the message of that round, and any other round does
\* not return; a chat that is running eventually ends when the provider
\* answers every round and stops requesting calls after finitely many
\* rounds; with an empty tool subset or a provider without tool support a
\* returning chat has issued exactly one provider round and, add_to_memory
\* set, has appended exactly one user and one assistant message.
C18_ChatTerminates ==
    /\ [][/\ (pc = "round" /\ pc' = "tools") =>
               /\ call'.op = "chat_round"
               /\ Len(call'.function_calls) > 0
               /\ run'.rounds = run.rounds + 1
          /\ (pc = "round" /\ call'.op = "chat" /\ ~call'.raised) =>
               /\ pc' = "idle"
               /\ Len(call'.function_calls) = 0
               /\ call'.rounds = run.rounds + 1
               /\ run.add_to_memory => messages'[Len(messages')].content = call'.ret
          /\ (pc = "round" /\ pc' = "round") => FALSE
          /\ (tools = {} \/ ~supports_tools) =>
               /\ pc' \notin {"round", "tools"}
               /\ (call'.op = "chat" /\ ~call'.raised) =>
                     /\ call'.rounds = 1
                     /\ call'.add_to_memory =>
                           LET n == call'.n0
                           IN  /\ Len(messages') = n + 2
                               /\ messages'[n + 1].role = "user"
                               /\ messages'[n + 2].role = "assistant"
                               /\ messages'[n + 2].content = call'.ret]_vars
    /\ InChat ~> pc = "idle"

\* a chat with bound tools has returned at its third provider round
C18_Witness ==
    /\ call.op = "chat"
    /\ ~call.raised
    /\ call.rounds = MaxRounds
    /\ tools # {}
    /\ supports_tools

(***************************************************************************)
(* Properties of the task tree, continued                                  *)
(***************************************************************************)
\* C19: after add_complex_task(description, subtasks), get_task of the
\* returned id yields a task with exactly len(subtasks) subtasks, distinct
\* objects carrying the input descriptions in input order, each with
\* parent_task that task and is_complex() false; is_complex() of the task is
\* true when the list is non-empty (and false when it is empty); the task and
\* every subtask have status pending.
C19_AddComplexTaskShape ==
    call.op = "add_complex_task" =>
        /\ GetTask(call.ret) # None
        /\ LET t == GetTask(call.ret)[1]
               subs == task[t].subtasks
           IN  /\ Len(subs) = Len(call.subtasks)
               /\ \A k \in 1..Len(subs) :
                     /\ task[subs[k]].description = call.subtasks[k]
                     /\ task[subs[k]].parent_task = Some(t)
                     /\ ~IsComplex(task, subs[k])
                     /\ task[subs[k]].status = "pending"
               /\ \A j, k \in 1..Len(subs) : j # k => subs[j] # subs[k]
               /\ IsComplex(task, t) <=> Len(call.subtasks) > 0
               /\ task[t].status = "pending"
               /\ task[t].parent_task = None

\* add_complex_task has returned for a list of two different descriptions
C19_Witness ==
    /\ call.op = "add_complex_task"
    /\ Len(call.subtasks) >= 2
    /\ call.subtasks[1] # call.subtasks[2]
    /\ GetTask(call.ret) # None

\* C20: when the loop of execute_task_sequentially reaches a subtask whose
\* status is not pending (in_progress, completed or failed), the iteration
\* leaves every task object as it is (status, result and error of the subtask
\* included), does not invoke agent.chat and goes on to the next index; a
\* call that has returned invoked agent.chat for no subtask that was not
\* pending when the call began.
C20_NonPendingSubtaskSkipped ==
    /\ [][(/\ pc = "subtasks"
           /\ run.i <= Len(task[run.task_id].subtasks)
           /\ task[task[run.task_id].subtasks[run.i]].status # "pending") =>
              /\ task' = task
              /\ pc' = "subtasks"
              /\ run'.i = run.i + 1
              /\ run'.executed = run.executed
              /\ call'.op = "skip_subtask"]_vars
    /\ [](call.op = "execute_task_sequentially" /\ call.found =>
            \A k \in 1..call.n0 :
               k \notin call.pending0 =>
                  \A e \in 1..Len(call.executed) :
                     call.executed[e] # task[call.task].subtasks[k])

\* the loop has just passed over a failed subtask that keeps its error
C20_Witness ==
    /\ pc = "subtasks"
    /\ call.op = "skip_subtask"
    /\ run.i >= 2
    /\ LET s == task[run.task_id].subtasks[run.i - 1]
       IN  /\ task[s].status = "failed"
           /\ task[s].error # None

\* C21: when agent.chat raises while a subtask is being executed, the call of
\* execute_task_sequentially ends with the exception, no task object changes
\* (the subtask stays in_progress, no later subtask is started, the parent is
\* not executed), and no step of the sequential executor puts a task into
\* status failed.
C21_ChatRaisesAbortsRun ==
    [][/\ (pc = "chat" /\ run.kind = "subtask" /\ call'.raised) =>
            /\ pc' = "idle"
            /\ run' = None
            /\ call'.op = "execute_task_sequentially"
            /\ call'.executed = Append(run.executed, run.target)
            /\ \A e \in 1..Len(call'.executed) : call'.executed[e] # run.task_id
            /\ task' = task
            /\ task'[run.target].status = "in_progress"
       /\ pc # "idle" =>
            \A t \in 1..Len(task) :
               task'[t].status = "failed" => task[t].status = "failed"]_vars

\* a run has ended with the exception of the chat for its first subtask,
\* which is in_progress, while a later subtask is still pending
C21_Witness ==
    /\ call.op = "execute_task_sequentially"
    /\ call.found
    /\ call.raised
    /\ Len(Subtasks(call.task)) >= 2
    /\ call.executed = <<Subtasks(call.task)[1]>>
    /\ task[Subtasks(call.task)[1]].status = "in_progress"
    /\ task[Subtasks(call.task)[2]].status = "pending"

\* the tasks of the tree a running execute_task_sequentially works on
RunTree == {run.task_id} \cup { Subtasks(run.task_id)[k] : k \in 1..Len(Subtasks(run.task_id)) }

\* C22: while execute_task_sequentially runs, at most one task of the tree
\* it executes (the parent and its subtasks) has status in_progress, and the
\* loop starts a subtask only when every earlier sibling that was pending
\* when the run began is completed.
C22_OneTaskInProgress ==
    /\ [](pc # "idle" =>
            Cardinality({ t \in RunTree : task[t].status = "in_progress" }) <= 1)
    /\ [][(/\ pc = "subtasks"
           /\ pc' = "chat"
           /\ run'.kind = "subtask") =>
              \A k \in 1..(run.i - 1) :
                 k \in run.pending0 =>
                    task[Subtasks(run.task_id)[k]].status = "completed"]_vars

\* C23: execute_task_sequentially with an id that is no key of the manager
\* returns None without raising, invokes no chat round and leaves every task
\* and the ledger unchanged; for a flat task it invokes exactly one chat
\* round, with an empty previous-results context, and a call that returns
\* leaves the task completed with the returned text as its result.
C23_AbsentOrFlatTask ==
    /\ [][(pc = "idle" /\ call'.op = "execute_task_sequentially") =>
              /\ call'.task \notin tasks
              /\ ~call'.found
              /\ ~call'.raised
              /\ call'.ret = None
              /\ call'.executed = <<>>
              /\ pc' = "idle"
              /\ UNCHANGED <<task, tasks, messages, total_input_tokens,
                             total_output_tokens>>]_vars
    /\ [][(pc = "idle" /\ call'.op = "execute_begin" /\ run'.n0 = 0) =>
              /\ run'.task_id \in tasks
              /\ pc' = "chat"
              /\ run'.kind = "simple"
              /\ run'.target = run'.task_id
              /\ run'.previous_results = <<>>
              /\ run'.prompt.text.previous = <<>>
              /\ messages' = messages]_vars
    /\ [][(pc = "chat" /\ run.kind = "simple" /\ ~call'.raised) =>
              /\ pc' = "idle"
              /\ call'.op = "execute_task_sequentially"
              /\ call'.executed = <<run.task_id>>
              /\ call'.ret # None
              /\ task'[run.task_id].status = "completed"
              /\ task'[run.task_id].result = call'.ret
              /\ Len(messages') = Len(messages) + 2
              /\ messages'[Len(messages')].content.text = call'.ret[1]]_vars

\* a lookup of an absent id has returned after a flat task was executed and
\* completed
C23_Witness ==
    /\ call.op = "execute_task_sequentially"
    /\ ~call.found
    /\ \E t \in tasks :
          /\ ~IsComplex(task, t)
          /\ task[t].status = "completed"
          /\ task[t].result # None
    /\ Len(messages) >= 2

(***************************************************************************)
(* Properties of retry_on_connection_error                                 *)
(***************************************************************************)
\* C24: a call wrapped by retry_on_connection_error(max_retries = m) invokes
\* the wrapped call at most m + 1 times; every invocation but the last ended
\* with a ConnectionError, TimeoutError or OSError; a successful invocation
\* is the last and its result is returned; a raised connection error is the
\* one of invocation m + 1; any other exception is raised by the invocation
\* it came from, which is the last. The wrapper goes on to another
\* invocation only after a connection error with attempts left.
C24_RetryOnConnectionError ==
    /\ [](call.op = "retry" =>
            LET n == Len(call.trace)
            IN  /\ n >= 1
                /\ n <= call.max_retries + 1
                /\ \A k \in 1..(n - 1) :
                      /\ call.trace[k].kind = "error"
                      /\ call.trace[k].class \in
                            {"ConnectionError", "ConnectionResetError",
                             "TimeoutError", "OSError"}
                /\ call.raised <=> call.trace[n].kind = "error"
                /\ call.raised => call.exc = n
                /\ (call.raised /\ call.trace[n].class \in
                       {"ConnectionError", "ConnectionResetError", "TimeoutError",
                        "OSError"}) => n = call.max_retries + 1
                /\ Len(call.slept) = n - 1)
    /\ [][(pc = "attempt" /\ pc' = "attempt") =>
              /\ Len(run'.trace) = Len(run.trace) + 1
              /\ run'.trace[Len(run'.trace)].class \in
                    {"ConnectionError", "ConnectionResetError", "TimeoutError",
                     "OSError"}
              /\ Len(run'.trace) <= run.max_retries]_vars

\* a wrapper with max_retries = 2 has raised the TimeoutError of its third
\* invocation, after a ConnectionError and an OSError
C24_Witness ==
    /\ call.op = "retry"
    /\ call.raised
    /\ call.max_retries = 2
    /\ Len(call.trace) = 3
    /\ call.trace[1].class = "ConnectionError"
    /\ call.trace[2].class = "OSError"
    /\ call.trace[3].class = "TimeoutError"
    /\ call.exc = 3

(***************************************************************************)
(* Properties of the filesystem tools                                      *)
(***************************************************************************)
\* the path is the root or a descendant of it
Inside(path, root) == Len(root) <= Len(path) /\ SubSeq(path, 1, Len(root)) = root

\* C25: with a working directory configured, a write_file or delete_file
\* whose path resolves to a location that is neither the root nor a
\* descendant of it returns an Access denied result and leaves the
\* filesystem unchanged, also when the resolved path string begins with the
\* root's string.
C25_WorkingDirConfinement ==
    [][(/\ call'.op \in {"write_file", "delete_file"}
        /\ Len(workingdir) > 0
        /\ ~Inside(ResolveFrom(Resolve(workingdir), call'.file_path),
                   Resolve(workingdir))) =>
           /\ call'.result = "Access denied"
           /\ fs' = fs]_vars

(***************************************************************************)
(* Properties of the parser of decompose_task                              *)
(***************************************************************************)
\* the text without its leading digits
RECURSIVE DropDigits(_)
DropDigits(s) == IF Len(s) > 0 /\ Head(s) \in Digits THEN DropDigits(Tail(s)) ELSE s

\* a trimmed line without its numbering prefix (the digits and the '.' that
\* follows them) or its leading dash
WithoutPrefix(t) ==
    IF t[1] = "-" THEN Tail(t)
    ELSE IF Len(DropDigits(t)) > 0 /\ Head(DropDigits(t)) = "."
         THEN Tail(DropDigits(t))
         ELSE DropDigits(t)

\* what a reply line is to yield: nothing, or its text without the prefix
Yielded(line) ==
    IF Len(Strip(line)) = 0 THEN <<>>
    ELSE IF ~(Strip(line)[1] \in Digits \/ Strip(line)[1] = "-") THEN <<>>
    ELSE IF Len(Strip(WithoutPrefix(Strip(line)))) = 0 THEN <<>>
    ELSE <<Strip(WithoutPrefix(Strip(line)))>>

RECURSIVE YieldedAll(_)
YieldedAll(lines) ==
    IF Len(lines) = 0 THEN <<>> ELSE Yielded(Head(lines)) \o YieldedAll(Tail(lines))

\* C26: the parser accepts a reply line iff, trimmed, it starts with a digit
\* or with '-', strips the numbering prefix (the digits and the following
\* '.') or the dash, discards what is empty after stripping and yields the
\* rest in reply order; the reply of the example yields 'Do X', 'Do Y',
\* 'Do Z'; no yielded description begins with a digit of its numbering.
C26_ParserAcceptsNumberedLines ==
    call.op = "parse" =>
        /\ call.ret = YieldedAll(SplitLines(Strip(call.response)))
        /\ call.response = ExampleReply =>
              call.ret = << <<"D", "o", " ", "X">>, <<"D", "o", " ", "Y">>,
                            <<"D", "o", " ", "Z">> >>
        /\ Len(SplitLines(Strip(call.response))) = 1 =>
              \A k \in 1..Len(call.ret) :
                 Strip(call.response)[1] \in Digits =>
                    call.ret[k][1] # Strip(call.response)[1]

\* C27: a decompose_task call that returns, returns the id of a task that is
\* a key of the task manager, new and pending, carrying the whole
\* description: when the parser yielded at least one description it is a
\* complex task whose subtasks carry the parsed descriptions in parsed
\* order, each with that task as parent; when it yielded none it is a flat
\* task.
C27_DecomposeReturnsPresentTask ==
    [][(call'.op = "decompose_task" /\ ~call'.raised) =>
          /\ call'.ret # None
          /\ call'.ret[1] \in tasks'
          /\ call'.ret[1] \notin tasks
          /\ LET t == call'.ret[1]
                 parsed == ParseSubtasks(call'.response)
             IN  /\ task'[t].description = call'.description
                 /\ task'[t].parent_task = None
                 /\ task'[t].status = "pending"
                 /\ Len(task'[t].subtasks) = Len(parsed)
                 /\ IsComplex(task', t) <=> Len(parsed) > 0
                 /\ \A k \in 1..Len(parsed) :
                       /\ task'[task'[t].subtasks[k]].description = parsed[k]
                       /\ task'[task'[t].subtasks[k]].parent_task = Some(t)
                       /\ task'[task'[t].subtasks[k]].status = "pending"
                       /\ task'[t].subtasks[k] \notin tasks']_vars

\* decompose_task has returned a complex task for a reply with two numbered
\* lines
C27_Witness ==
    /\ call.op = "decompose_task"
    /\ ~call.raised
    /\ Len(ParseSubtasks(call.response)) = 2
    /\ call.ret[1] \in tasks
    /\ Len(task[call.ret[1]].subtasks) = 2

-----------------------------------------------------------------------------
\* Properties of remove_message and the readers of the ledger

\* C28: remove_message of a message object that is in the ledger (at >= 1
\* is its position) removes that object and no other, also when another
\* message has its role and content, and keeps the others in their order;
\* remove_message of an object that is not in the ledger (at = 0) changes
\* nothing, and so does a second removal of the object just removed; the
\* two totals are unchanged by remove_message.  get_messages right after an
\* add_message that returned contains the added message, with its role and
\* content.
C28_RemoveMessageByIdentity ==
    [][ /\ (call'.op = "remove_message" /\ call'.at >= 1) =>
              /\ Len(messages') = Len(messages) - 1
              /\ \A k \in 1..Len(messages') :
                    messages'[k] = messages[IF k < call'.at THEN k ELSE k + 1]
        /\ (call'.op = "remove_message" /\ call'.at = 0) => messages' = messages
        /\ call'.op = "remove_message" =>
              /\ RemoveMessage(messages', 0) = messages'
              /\ total_input_tokens' = total_input_tokens
              /\ total_output_tokens' = total_output_tokens
        /\ (call.op = "add_message" /\ ~call.raised /\ call'.op = "get_messages") =>
              /\ call.at \in 1..Len(call'.ret)
              /\ call'.ret[call.at] = call.ret
              /\ call'.ret[call.at].role = call.ret.role
              /\ call'.ret[call.at].content = call.ret.content
      ]_vars

\* the second of two messages with the same role and content was removed,
\* the first is still in the ledger, and the totals are not zero
C28_Witness ==
    /\ call.op = "remove_message"
    /\ call.at = 2
    /\ call.removed # None
    /\ Len(messages) = 1
    /\ messages[1].role = call.removed[1].role
    /\ messages[1].content = call.removed[1].content
    /\ messages[1] # call.removed[1]
    /\ total_input_tokens > 0

\* the positions of the ledger that get_messages_for_task(task_id) is to
\* return: the messages of the task and the system messages
TaskPositions(task_id) ==
    { k \in 1..Len(messages) :
        messages[k].task_id = task_id \/ messages[k].role = "system" }

\* C29: get_messages_for_task(task_id) returns, in the order of the ledger,
\* the messages whose task_id is the argument and every system message, and
\* nothing else: its i-th element is the message at the i-th of these
\* positions.
C29_MessagesForTask ==
    call.op = "get_messages_for_task" =>
        /\ Len(call.ret) = Cardinality(TaskPositions(call.task_id))
        /\ \A k \in TaskPositions(call.task_id) :
              call.ret[Cardinality({ j \in TaskPositions(call.task_id) : j <= k })]
                  = messages[k]

\* a ledger with a user message without task and a system message of
\* another task was read for task "t1"
C29_Witness ==
    /\ call.op = "get_messages_for_task"
    /\ call.task_id = Some("t1")
    /\ Len(messages) = 2
    /\ messages[1].role = "user" /\ messages[1].task_id = None
    /\ messages[2].role = "system" /\ messages[2].task_id = None
    /\ Len(call.ret) = 1

-----------------------------------------------------------------------------
\* Properties of the construction

\* C30: Memory(...) and Agent(...) raise ValueError exactly when the
\* provider name, or the model name for that provider, is not in the
\* pricing table, and then no Memory object exists: the state stays as it
\* was before the construction and no operation of the ledger follows; for
\* a pair of the table the new Memory has the entry's input cost, output
\* cost and, as max_tokens, context size, and zero totals.
C30_ConstructionUsesPricingTable ==
    [][ /\ call'.op \in {"Memory", "Agent"} =>
              LET known == /\ call'.provider \in DOMAIN models
                           /\ call'.model \in DOMAIN models[call'.provider]
              IN  /\ pc = "new"
                  /\ call'.raised <=> ~known
                  /\ ~known =>
                        /\ pc' = "new"
                        /\ call'.error \in {"ValueError: Provider not found",
                                             "ValueError: Model not found"}
                        /\ UNCHANGED <<memvars, task, tasks, run>>
                  /\ known =>
                        LET entry == models[call'.provider][call'.model]
                        IN  /\ pc' = "idle"
                            /\ input_cost_per_million' = entry.input_cost
                            /\ output_cost_per_million' = entry.output_cost
                            /\ max_tokens' = entry.context_size
                            /\ total_input_tokens' = 0
                            /\ total_output_tokens' = 0
                            /\ SelectSeq(messages', LAMBDA m : m.role # "system") = <<>>
        /\ pc = "new" => call'.op \in {"Memory", "Agent"}
      ]_vars

\* an Agent for AnthropicProvider with its default model, which the table
\* does not have, was refused
C30_Witness ==
    /\ call.op = "Agent"
    /\ call.raised
    /\ call.provider = "anthropic"
    /\ call.model = "claude-3-sonnet-20240229"
    /\ pc = "new"

-----------------------------------------------------------------------------
\* Properties of the TaskManager's mapping and of the task tree

\* C31: no operation removes a key from TaskManager.tasks; add_task and
\* add_complex_task each add exactly one key, that of the new root task,
\* which is no key and no task object so far; no key is a subtask, so
\* get_task of a subtask's id returns None.
C31_TasksOnlyAccumulate ==
    /\ [](\A id \in tasks : /\ id \in 1..Len(task)
                            /\ task[id].parent_task = None
                            /\ \A t \in 1..Len(task) :
                                  \A k \in 1..Len(task[t].subtasks) :
                                     task[t].subtasks[k] # id)
    /\ []((call.op = "get_task" /\ call.task_id \in 1..Len(task)
           /\ task[call.task_id].parent_task # None) => call.ret = None)
    /\ [][ /\ tasks \subseteq tasks'
           /\ (call'.op \in {"add_task", "add_complex_task"} /\ Len(task') > Len(task)) =>
                 /\ call'.ret \notin tasks
                 /\ call'.ret \notin 1..Len(task)
                 /\ tasks' = tasks \cup {call'.ret}
           /\ call'.op \notin {"add_task", "add_complex_task"} => tasks' = tasks
         ]_vars

\* a second root task was added to a TaskManager that holds a complex task,
\* and get_task of a subtask's id was asked
C31_Witness ==
    /\ call.op = "get_task"
    /\ call.task_id \in 1..Len(task)
    /\ task[call.task_id].parent_task # None
    /\ Cardinality(tasks) = 2

\* the tasks reached from t by following parent_task at most n times
RECURSIVE Ancestors(_, _)
Ancestors(t, n) ==
    IF n = 0 \/ task[t].parent_task = None THEN {}
    ELSE {task[t].parent_task[1]} \cup Ancestors(task[t].parent_task[1], n - 1)

\* the places (t, k) of the subtasks lists that hold the task s
Places(s) ==
    { p \in (1..Len(task)) \X (1..Len(task)) :
        /\ p[2] <= Len(task[p[1]].subtasks)
        /\ task[p[1]].subtasks[p[2]] = s }

\* C32: the parent/child relation is a strict tree: a task is in at most
\* one place of at most one subtasks list, the owner of that list is its
\* parent_task and a task with a parent_task is in that task's list, the
\* keys of the TaskManager have no parent_task, and no task is among its
\* own ancestors.
C32_StrictTree ==
    /\ \A s \in 1..Len(task) :
          /\ Cardinality(Places(s)) <= 1
          /\ \A p \in Places(s) : task[s].parent_task = Some(p[1])
          /\ task[s].parent_task # None =>
                \E p \in Places(s) : p[1] = task[s].parent_task[1]
          /\ s \notin Ancestors(s, Len(task))
    /\ \A id \in tasks : task[id].parent_task = None

\* a subtask of a subtask of a root task
C32_Witness ==
    \E s \in 1..Len(task) :
        /\ task[s].parent_task # None
        /\ task[task[s].parent_task[1]].parent_task # None
        /\ task[task[s].parent_task[1]].parent_task[1] \in tasks
        /\ Cardinality(Ancestors(s, Len(task))) = 2

-----------------------------------------------------------------------------
\* Properties of the token estimate and of the cost

\* round(n * 1.3): the nearest integer of 13n/10, the even one of two that
\* are equally near
Round13(n) ==
    LET q == (13 * n) \div 10
        m == (13 * n) % 10
    IN  IF m < 5 THEN q
        ELSE IF m > 5 THEN q + 1
        ELSE IF q % 2 = 0 THEN q ELSE q + 1

\* C33: without a tokenizer add_message does not raise and sets
\* input_tokens_estimate to round(word_count * 1.3), for every word count
\* of the content.
C33_FallbackEstimateRounds ==
    (call.op = "add_message" /\ ~tokenizer_ok) =>
        /\ ~call.raised
        /\ call.ret.input_tokens_estimate = Some(Round13(call.ret.content.words))

\* C34: get_total_cost returns (total_input_tokens / 1e6) *
\* input_cost_per_million + (total_output_tokens / 1e6) *
\* output_cost_per_million of the running totals, here in 1/100,000,000
\* USD with the costs in cents; for costs 1.5 and 2.0 USD, 1,000,000 input
\* and 500,000 output tokens it is 2.5 USD; the call changes neither the
\* ledger nor the totals nor the costs.
C34_TotalCost ==
    /\ [](call.op = "get_total_cost" =>
            /\ call.ret = total_input_tokens * input_cost_per_million
                          + total_output_tokens * output_cost_per_million
            /\ (/\ input_cost_per_million = 150
                /\ output_cost_per_million = 200
                /\ total_input_tokens = 1000000
                /\ total_output_tokens = 500000) => call.ret = 250000000)
    /\ [][call'.op = "get_total_cost" => UNCHANGED <<memvars, taskvars>>]_vars

\* the cost of 1,000,000 input and 500,000 output tokens of
\* openai/gpt-3.5-turbo was asked
C34_Witness ==
    /\ call.op = "get_total_cost"
    /\ input_cost_per_million = 150
    /\ output_cost_per_million = 200
    /\ total_input_tokens = 1000000
    /\ total_output_tokens = 500000
    /\ call.ret = 250000000

-----------------------------------------------------------------------------
\* Properties of completed complex tasks and of repeated runs

\* C35: when execute_task_sequentially returns normally for a complex
\* task, the task and all its subtasks are completed; and in every state a
\* completed task with subtasks has no subtask that is pending, in_progress
\* or failed, also after the re-run that follows an aborted run.
C35_CompletedParentHasCompletedSubtasks ==
    /\ [](\A t \in 1..Len(task) :
            (task[t].status = "completed" /\ IsComplex(task, t)) =>
                \A k \in 1..Len(task[t].subtasks) :
                    task[task[t].subtasks[k]].status = "completed")
    /\ [][ (/\ pc = "chat"
            /\ pc' = "idle"
            /\ call'.op = "execute_task_sequentially"
            /\ ~call'.raised
            /\ IsComplex(task', call'.task)) =>
               /\ task'[call'.task].status = "completed"
               /\ \A k \in 1..Len(task'[call'.task].subtasks) :
                     task'[task'[call'.task].subtasks[k]].status = "completed"
         ]_vars

-----------------------------------------------------------------------------
\* Properties of add_message under eviction

\* C36: add_message returns without raising and the message it returns is
\* in the ledger, also when the estimate of the new message alone exceeds
\* max_tokens: the eviction loop does not pop from an empty list and does
\* not evict the new message.
C36_AddMessageNeverRaises ==
    call.op = "add_message" =>
        /\ ~call.raised
        /\ call.at \in 1..Len(messages)
        /\ messages[call.at] = call.ret

-----------------------------------------------------------------------------
\* Properties of the running totals

\* C37: with provider responses that report non-negative token counts,
\* total_input_tokens and total_output_tokens are never negative, whatever
\* the order of add_message, add_response_message, the evictions they
\* cause, and remove_message.
C37_TotalsNonNegative ==
    /\ total_input_tokens >= 0
    /\ total_output_tokens >= 0

\* an eviction has lowered total_input_tokens, and it is still positive
C37_Witness ==
    /\ call.op \in {"add_message", "add_response_message"}
    /\ ~call.raised
    /\ call.evicted > 0
    /\ call.op = "add_message" => call.freed > 0
    /\ total_input_tokens > 0
    /\ total_output_tokens > 0

-----------------------------------------------------------------------------
\* Properties of runs during which subtasks are added

\* C38: when execute_task_sequentially returns normally for a task that got
\* subtasks from the tool task.add_subtask while the run was in progress
\* (it has more subtasks than when the run began), none of its subtasks is
\* pending: the appended ones were executed in that run.
C38_AppendedSubtasksExecuted ==
    [][ (/\ pc = "chat"
         /\ pc' = "idle"
         /\ call'.op = "execute_task_sequentially"
         /\ ~call'.raised
         /\ Len(task'[call'.task].subtasks) > call'.n0) =>
            PendingSubtasks(task', call'.task) = {}
      ]_vars

\* C39: a run of execute_task_sequentially on a complex task that an
\* earlier run completed (the task and all its subtasks are completed when
\* the run begins) calls agent.chat for no task, neither a subtask nor the
\* parent, and changes no status and no result.
C39_SecondRunDoesNothing ==
    [][ (/\ pc = "subtasks"
         /\ run.executed = <<>>
         /\ IsComplex(task, run.task_id)
         /\ task[run.task_id].status = "completed"
         /\ AllSubtasksCompleted(task, run.task_id)) =>
            /\ pc' # "chat"
            /\ task' = task
      ]_vars

(***************************************************************************)
(* Properties of the tool registries                                       *)
(***************************************************************************)
\* what a registry call is specified to do, given the dict before the call
RegistryCallAsSpecified ==
    LET module == call'.module
        before == registry[module]
    IN  /\ call'.op = "get_tools_by_names" =>
              LET requested == { call'.tool_names[k] : k \in DOMAIN call'.tool_names }
              IN  /\ DOMAIN call'.ret = requested \cap DOMAIN before
                  /\ \A n \in DOMAIN call'.ret : call'.ret[n] = before[n]
                  /\ registry' = registry
        /\ call'.op = "register_tool" =>
              /\ DOMAIN registry'[module] = DOMAIN before \cup {call'.tool.name}
              /\ registry'[module][call'.tool.name] = call'.tool
              /\ \A n \in DOMAIN before \ {call'.tool.name} :
                    registry'[module][n] = before[n]
              /\ \A other \in DOMAIN registry \ {module} :
                    registry'[other] = registry[other]

\* C40: get_tools_by_names returns a mapping of exactly the requested names
\* that are registered, each mapped to the registered tool, and leaves the
\* global registry's contents unchanged; register_tool with a name that is
\* already registered keeps one entry for the name, holding the latest tool.
C40_GetToolsByNamesLeavesRegistry == [][RegistryCallAsSpecified]_vars

====
